---- MODULE Spec2Model ----
(***************************************************************************)
(* Model of the thermal control loop of thermal/thermal-helper.cpp:        *)
(* ThermalHelper::thermalWatcherCallbackFunc and the functions it calls    *)
(* (readTemperature, getSeverityFromThresholds, pidPowerCalculator,        *)
(* requestCdevByPower, requestCdevBySeverity, updateCoolingDevices,        *)
(* sendPowerExtHint, PowerHalService::setMode).                            *)
(*                                                                         *)
(* Numbers.  The code computes in float.  Temperatures, gains and powers   *)
(* are integers here and every product and sum is exact.  The one division *)
(* of the PID (the derivative term, by the elapsed milliseconds) is kept   *)
(* exact by carrying the budget as a fraction num/den.  NaN and FLT_MAX    *)
(* are separate values with the comparison behaviour of IEEE floats: every *)
(* ordered comparison with NaN is false.                                   *)
(***************************************************************************)
EXTENDS Integers, Sequences, FiniteSets, TLC

VARIABLES
    cfg,                        \* sensor_info_map_ / cooling_device_info_map_ (immutable)
    now,                        \* boot_clock reading of the running / last iteration
    uevent_sensors,             \* argument of the running iteration
    pc,                         \* position of the watcher thread
    idx,                        \* position in sensor_status_map_ / temps
    sensor_status_map_,         \* sensor -> SensorStatus
    cdev_status_map_,           \* cdev -> (sensor -> requested state)
    temps,                      \* sensors whose severity changed this iteration
    cooling_devices_to_update,  \* cdevs whose request changed this iteration
    min_sleep_ms,               \* running minimum of the iteration
    ret_sleep,                  \* value returned by the last iteration
    cur_state,                  \* cdev -> content of its cur_state file
    power_hal,                  \* PowerHalService fields
    writes,                     \* writeCdevFile calls of this iteration, in order
    rpc_log,                    \* setMode RPCs of this iteration, in order
    cb_log,                     \* cb_ invocations of this iteration, in order
    eval,                       \* sensor -> what the iteration did with it
    call                        \* the call running outside the watcher's callback

vars == <<cfg, now, uevent_sensors, pc, idx, sensor_status_map_, cdev_status_map_,
          temps, cooling_devices_to_update, min_sleep_ms, ret_sleep, cur_state,
          power_hal, writes, rpc_log, cb_log, eval, call>>

----------------------------------------------------------------------------
(* Constants of the program *)

\* ThrottlingSeverity: NONE < LIGHT < MODERATE < SEVERE < CRITICAL < EMERGENCY < SHUTDOWN
NONE == 0
LIGHT == 1
MODERATE == 2
SEVERE == 3
CRITICAL == 4
EMERGENCY == 5
SHUTDOWN == 6
kThrottlingSeverityCount == 7
Severities == 0 .. (kThrottlingSeverityCount - 1)

\* std::chrono::milliseconds kMinPollIntervalMs
kMinPollIntervalMs == 2000
\* std::numeric_limits<int>::max(), the initial min_sleep_ms
IntMax == 2147483647

\* NAN: a value apart from every number the model computes with
NaN == 0 - 1000000
IsNaN(x) == x = NaN

\* a failed readThermalFile
ReadFail == 0 - 2000000

\* element i (0-based, as in the code) of a ThrottlingArray written as a tuple
At(arr, i) == arr[i + 1]

NoMap == [x \in {} |-> 0]

----------------------------------------------------------------------------
(* Bounds of the model *)

\* the boot clock stops advancing after MaxSeconds seconds
MaxSeconds == 4
\* the watcher is woken Step ms after the previous iteration started
Steps == {0, 1000, 3000}

----------------------------------------------------------------------------
(* Configurations: the parsed SensorInfo / CdevInfo records plus the parts  *)
(* of the environment that are fixed at startup.                            *)

AllNaN == <<NaN, NaN, NaN, NaN, NaN, NaN, NaN>>
Zeros == <<0, 0, 0, 0, 0, 0, 0>>
NoThrottle == <<"NONE", "NONE", "NONE", "NONE", "NONE", "NONE", "NONE">>

BaseSensor == [
    is_virtual_sensor |-> FALSE, is_monitor |-> TRUE,
    send_cb |-> TRUE, send_powerhint |-> FALSE,
    support_uevent |-> TRUE,
    multiplier |-> 1,
    polling_delay |-> 4000, passive_delay |-> 1000,
    hot_thresholds |-> <<NaN, 45, 55, 65, NaN, NaN, 95>>,
    cold_thresholds |-> AllNaN,
    hot_hysteresis |-> <<0, 2, 3, 3, 0, 0, 0>>,
    cold_hysteresis |-> Zeros,
    throttle_type |-> NoThrottle,
    k_po |-> Zeros, k_pu |-> Zeros, k_i |-> Zeros, k_d |-> Zeros,
    i_cutoff |-> Zeros, i_max |-> Zeros, s_power |-> Zeros,
    min_alloc_power |-> Zeros, max_alloc_power |-> Zeros,
    cdev_request |-> <<>>, cdev_weight |-> <<>>,
    limit_info |-> NoMap,
    trigger_sensor |-> "", linked_sensors |-> <<>>, coefficients |-> <<>>,
    formula |-> "WEIGHTED_AVG",
    supported_hints |-> {},
    readings |-> {30} ]

\* Two sensors drive the same cooling device by hard limits.
SharedS1 == [BaseSensor EXCEPT
    !.throttle_type = <<"NONE", "LIMIT", "LIMIT", "NONE", "NONE", "NONE", "NONE">>,
    !.limit_info = ("c1" :> <<0, 3, 3, 3, 3, 3, 3>>),
    !.readings = {30, 50} ]

SharedS2 == [BaseSensor EXCEPT
    !.send_cb = FALSE,
    !.polling_delay = 3000, !.passive_delay = 3000,
    !.throttle_type = <<"NONE", "LIMIT", "LIMIT", "NONE", "NONE", "NONE", "NONE">>,
    !.limit_info = ("c1" :> <<0, 1, 5, 5, 5, 5, 5>>),
    !.readings = {30, 50, 60} ]

CfgShared == [
    name |-> "shared",
    sensors |-> <<"s1", "s2">>,
    sensor_info |-> ("s1" :> SharedS1 @@ "s2" :> SharedS2),
    cdevs |-> <<"c1">>,
    cdev_info |-> ("c1" :> [power2state |-> <<1500, 1200, 1000, 800, 500, 0>>]),
    cdev_write_may_fail |-> FALSE,
    power_hal_up |-> FALSE ]

\* One sensor drives a cooling device by PID (targets MODERATE and SEVERE, with
\* different integral gains) and by a hard limit, and sends power hints.
PidS1 == [BaseSensor EXCEPT
    !.send_powerhint = TRUE,
    !.throttle_type = <<"NONE", "LIMIT", "PID", "PID", "NONE", "NONE", "NONE">>,
    !.k_po = <<0, 0, 200, 100, 0, 0, 0>>,
    !.k_pu = <<0, 0, 100, 50, 0, 0, 0>>,
    !.k_i = <<0, 0, 2, 3, 0, 0, 0>>,
    !.k_d = <<0, 0, 6, 6, 0, 0, 0>>,
    !.i_cutoff = <<0, 0, 3, 10, 0, 0, 0>>,
    !.i_max = <<0, 0, 10, 10, 0, 0, 0>>,
    !.s_power = <<0, 0, 900, 600, 0, 0, 0>>,
    !.min_alloc_power = <<0, 0, 100, 100, 0, 0, 0>>,
    !.max_alloc_power = <<0, 0, 1150, 1400, 0, 0, 0>>,
    !.cdev_request = <<"c1", "c2">>, !.cdev_weight = <<2, 1>>,
    !.limit_info = ("c1" :> <<0, 1, 1, 3, 3, 3, 3>> @@ "c2" :> <<0, 0, 2, 2, 2, 2, 2>>),
    !.supported_hints = {LIGHT, SEVERE},
    !.readings = {30, 52, 53, 60} ]

CfgPid == [
    name |-> "pid",
    sensors |-> <<"s1">>,
    sensor_info |-> ("s1" :> PidS1),
    cdevs |-> <<"c1", "c2">>,
    cdev_info |-> ("c1" :> [power2state |-> <<1000, 800, 700, 600, 400, 0>>]
                   @@ "c2" :> [power2state |-> <<500, 380, 300, 0>>]),
    cdev_write_may_fail |-> FALSE,
    power_hal_up |-> TRUE ]

\* A virtual sensor v1 = MAXIMUM(s1, s2) triggered by s1; s2 is not monitored.
VirtualS1 == [BaseSensor EXCEPT !.readings = {30, 60}]

VirtualS2 == [BaseSensor EXCEPT !.is_monitor = FALSE, !.readings = {50}]

VirtualV1 == [BaseSensor EXCEPT
    !.is_virtual_sensor = TRUE,
    !.polling_delay = 3000, !.passive_delay = 3000,
    !.trigger_sensor = "s1",
    !.linked_sensors = <<"s1", "s2">>, !.coefficients = <<1, 1>>,
    !.formula = "MAXIMUM",
    !.readings = {} ]

CfgVirtual == [
    name |-> "virtual",
    sensors |-> <<"s1", "s2", "v1">>,
    sensor_info |-> ("s1" :> VirtualS1 @@ "s2" :> VirtualS2 @@ "v1" :> VirtualV1),
    cdevs |-> <<"c1">>,
    cdev_info |-> ("c1" :> [power2state |-> <<1500, 1000, 500, 0>>]),
    cdev_write_may_fail |-> FALSE,
    power_hal_up |-> FALSE ]

\* One sensor whose PID clamps are crossed: min_alloc_power > max_alloc_power.
ClampS1 == [BaseSensor EXCEPT
    !.throttle_type = <<"NONE", "PID", "NONE", "NONE", "NONE", "NONE", "NONE">>,
    !.k_po = <<0, 10, 0, 0, 0, 0, 0>>,
    !.k_pu = <<0, 10, 0, 0, 0, 0, 0>>,
    !.k_i = <<0, 1, 0, 0, 0, 0, 0>>,
    !.k_d = <<0, 4, 0, 0, 0, 0, 0>>,
    !.i_cutoff = <<0, 0, 0, 0, 0, 0, 0>>,
    !.i_max = <<0, 20, 0, 0, 0, 0, 0>>,
    !.s_power = <<0, 800, 0, 0, 0, 0, 0>>,
    !.min_alloc_power = <<0, 900, 0, 0, 0, 0, 0>>,
    !.max_alloc_power = <<0, 700, 0, 0, 0, 0, 0>>,
    !.cdev_request = <<"c1">>, !.cdev_weight = <<1>>,
    !.readings = {30, 50} ]

CfgClamp == [
    name |-> "clamp",
    sensors |-> <<"s1">>,
    sensor_info |-> ("s1" :> ClampS1),
    cdevs |-> <<"c1">>,
    cdev_info |-> ("c1" :> [power2state |-> <<1500, 1000, 500, 0>>]),
    cdev_write_may_fail |-> FALSE,
    power_hal_up |-> FALSE ]

\* One sensor with a hard limit; the writes to the cooling device may fail.
WriteFailS1 == [BaseSensor EXCEPT
    !.throttle_type = <<"NONE", "LIMIT", "LIMIT", "NONE", "NONE", "NONE", "NONE">>,
    !.limit_info = ("c1" :> <<0, 1, 2, 2, 2, 2, 2>>),
    !.readings = {30, 50, 60} ]

CfgWriteFail == [
    name |-> "writefail",
    sensors |-> <<"s1">>,
    sensor_info |-> ("s1" :> WriteFailS1),
    cdevs |-> <<"c1">>,
    cdev_info |-> ("c1" :> [power2state |-> <<1500, 1000, 500, 0>>]),
    cdev_write_may_fail |-> TRUE,
    power_hal_up |-> FALSE ]

Configs == {CfgShared, CfgPid, CfgVirtual, CfgClamp, CfgWriteFail}

----------------------------------------------------------------------------
(* Configuration access *)

SensorNames(c) == {c.sensors[k] : k \in 1 .. Len(c.sensors)}
CdevNames(c) == {c.cdevs[k] : k \in 1 .. Len(c.cdevs)}

\* setMinTimeout: polling_delay = passive_delay = kMinPollIntervalMs
setMinTimeout(info) ==
    [info EXCEPT !.polling_delay = kMinPollIntervalMs, !.passive_delay = kMinPollIntervalMs]

\* sensor_info_map_.at(name) as initializeTrip leaves it: a monitored physical
\* sensor that could not be set up for uevents polls at the minimum interval
SensorInfoOf(c, name) ==
    LET info == c.sensor_info[name]
    IN IF info.is_monitor /\ ~info.is_virtual_sensor /\ ~info.support_uevent
       THEN setMinTimeout(info)
       ELSE info

\* the sensors the watcher was registered for (monitored_sensors of initializeTrip)
UeventCapable(c) ==
    {s \in SensorNames(c) : LET info == c.sensor_info[s]
                            IN info.is_monitor /\ ~info.is_virtual_sensor /\ info.support_uevent}

MaxOf(a, b) == IF a > b THEN a ELSE b

----------------------------------------------------------------------------
(* getSeverityFromThresholds *)

\* one pass of the loop, i from SHUTDOWN down to LIGHT
RECURSIVE SeverityScan(_, _, _, _, _, _, _)
SeverityScan(hot_thresholds, cold_thresholds, hot_hysteresis, cold_hysteresis, value, i, r) ==
    IF i <= NONE THEN r
    ELSE LET ht == At(hot_thresholds, i)
             hh == At(hot_hysteresis, i)
             ct == At(cold_thresholds, i)
             ch == At(cold_hysteresis, i)
             r1 == [ret_hot |->
                        IF ~IsNaN(ht) /\ ht <= value /\ r.ret_hot = NONE
                        THEN i ELSE r.ret_hot,
                    ret_hot_hysteresis |->
                        IF ~IsNaN(ht) /\ ~IsNaN(hh) /\ (ht - hh) < value
                           /\ r.ret_hot_hysteresis = NONE
                        THEN i ELSE r.ret_hot_hysteresis,
                    ret_cold |->
                        IF ~IsNaN(ct) /\ ct >= value /\ r.ret_cold = NONE
                        THEN i ELSE r.ret_cold,
                    ret_cold_hysteresis |->
                        IF ~IsNaN(ct) /\ ~IsNaN(ch) /\ (ct + ch) > value
                           /\ r.ret_cold_hysteresis = NONE
                        THEN i ELSE r.ret_cold_hysteresis]
         IN SeverityScan(hot_thresholds, cold_thresholds, hot_hysteresis, cold_hysteresis,
                         value, i - 1, r1)

\* faulty variant: the hysteresis severity is never used
HotWithoutHysteresis(ret_hot, ret_hot_hysteresis, prev_hot_severity) == ret_hot

\* the hot severity kept when the raw one fell below the previous one
HotAfterHysteresis(ret_hot, ret_hot_hysteresis, prev_hot_severity) ==
    IF ret_hot < prev_hot_severity THEN ret_hot_hysteresis ELSE ret_hot

\* faulty variant: the cold hysteresis memory is ignored
ColdWithoutHysteresis(ret_cold, ret_cold_hysteresis, prev_cold_severity) == ret_cold

\* the cold severity kept when the raw one fell below the previous one
ColdAfterHysteresis(ret_cold, ret_cold_hysteresis, prev_cold_severity) ==
    IF ret_cold < prev_cold_severity THEN ret_cold_hysteresis ELSE ret_cold

\* returns <<hot, cold>>
getSeverityFromThresholds(hot_thresholds, cold_thresholds, hot_hysteresis, cold_hysteresis, prev_hot_severity, prev_cold_severity, value) ==
    LET r == SeverityScan(hot_thresholds, cold_thresholds, hot_hysteresis, cold_hysteresis,
                          value, SHUTDOWN,
                          [ret_hot |-> NONE, ret_hot_hysteresis |-> NONE,
                           ret_cold |-> NONE, ret_cold_hysteresis |-> NONE])
    IN <<HotAfterHysteresis(r.ret_hot, r.ret_hot_hysteresis, prev_hot_severity),
         ColdAfterHysteresis(r.ret_cold, r.ret_cold_hysteresis, prev_cold_severity)>>

----------------------------------------------------------------------------
(* Power budgets: a fraction num/den (den > 0), FLT_MAX, +-infinity or NaN *)

Fin(n, d) == [kind |-> "fin", num |-> n, den |-> d]
FltMax == [kind |-> "max", num |-> 0, den |-> 1]
PosInf == [kind |-> "inf", num |-> 0, den |-> 1]
NegInf == [kind |-> "-inf", num |-> 0, den |-> 1]
NaNBudget == [kind |-> "nan", num |-> 0, den |-> 1]

\* b < m and b > m for an integer m, as float comparisons
BudgetLt(b, m) ==
    CASE b.kind = "fin" -> b.num < m * b.den
      [] b.kind = "-inf" -> TRUE
      [] OTHER -> FALSE

BudgetGt(b, m) ==
    CASE b.kind = "fin" -> b.num > m * b.den
      [] b.kind = "inf" -> TRUE
      [] b.kind = "max" -> TRUE
      [] OTHER -> FALSE

\* b1 <= b2
BudgetLe(b1, b2) ==
    CASE b1.kind = "nan" \/ b2.kind = "nan" -> FALSE
      [] b1.kind = "-inf" \/ b2.kind = "inf" -> TRUE
      [] b1.kind = "inf" \/ b2.kind = "-inf" -> FALSE
      [] b2.kind = "max" -> TRUE
      [] b1.kind = "max" -> FALSE
      [] b1 = b2 -> TRUE
      [] OTHER -> b1.num * b2.den <= b2.num * b1.den

----------------------------------------------------------------------------
(* pidPowerCalculator *)

\* the loop over hidl_enum_range<ThrottlingSeverity>() that picks target_state
RECURSIVE PidTargetLoop(_, _, _, _)
PidTargetLoop(throttle_type, severity, state, target_state) ==
    IF state >= kThrottlingSeverityCount THEN target_state
    ELSE IF At(throttle_type, state) # "PID"
         THEN PidTargetLoop(throttle_type, severity, state + 1, target_state)
         ELSE IF state > severity
              THEN state
              ELSE PidTargetLoop(throttle_type, severity, state + 1, state)

\* faulty variant: the lowest PID severity, or the current severity above it
PidTargetLowest(info, severity) ==
    LET pid == {st \in 0..(kThrottlingSeverityCount - 1) : At(info.throttle_type, st) = "PID"}
    IN IF pid = {} THEN 0
       ELSE LET lowest == CHOOSE st \in pid : \A o \in pid : st <= o
            IN IF severity > lowest THEN severity ELSE lowest

PidTarget(info, severity) == PidTargetLoop(info.throttle_type, severity, NONE, 0)

\* faulty variant: only a missing target skips the PID computation
NoPidTargetOnly(target_state, severity) == target_state = 0

\* if (!target_state || (sensor_status->severity == ThrottlingSeverity::NONE))
NoPid(target_state, severity) == target_state = 0 \/ severity = NONE

Abs(x) == IF x < 0 THEN 0 - x ELSE x

\* faulty variant: the undershoot gain whatever the sign of the error
PidProportionalUndershoot(err, k_po, k_pu) == err * k_pu

\* p = err * (err < 0 ? k_po[target_state] : k_pu[target_state])
PidProportional(err, k_po, k_pu) == err * (IF err < 0 THEN k_po ELSE k_pu)

\* the integral step: <<i, err_integral>> after the sample
PidIntegral(err_integral, err, k_i, i_cutoff, i_max) ==
    LET i == err_integral * k_i
        i_next == i + err * k_i
    IN IF err < i_cutoff /\ Abs(i_next) < i_max
       THEN <<i_next, err_integral + err>>
       ELSE <<i, err_integral>>

\* s_power + p + i + d, d = k_d * (err - prev_err) / time_elapsed_ms
PidSum(base, k_d, err, prev_err, time_elapsed_ms) ==
    IF IsNaN(prev_err) THEN Fin(base, 1)
    ELSE LET n == k_d * (err - prev_err)
         IN IF time_elapsed_ms > 0 THEN Fin(base * time_elapsed_ms + n, time_elapsed_ms)
            ELSE IF n > 0 THEN PosInf
            ELSE IF n < 0 THEN NegInf
            ELSE NaNBudget

\* faulty variant: the upper clamp is missing
PidClampMinOnly(power_budget, min_alloc_power, max_alloc_power) ==
    IF BudgetLt(power_budget, min_alloc_power)
    THEN Fin(min_alloc_power, 1) ELSE power_budget

\* the two clamps, in the order of the code
PidClamp(power_budget, min_alloc_power, max_alloc_power) ==
    LET b1 == IF BudgetLt(power_budget, min_alloc_power)
              THEN Fin(min_alloc_power, 1) ELSE power_budget
    IN IF BudgetGt(b1, max_alloc_power) THEN Fin(max_alloc_power, 1) ELSE b1

\* faulty variant: the PID memory survives the early return
NoPidResultKeep(status, target_state) ==
    [power_budget |-> FltMax, err_integral |-> status.err_integral,
     prev_err |-> status.prev_err, target_state |-> target_state, computed |-> FALSE]

\* err_integral = 0; prev_err = NAN; return power_budget (still FLT_MAX)
NoPidResult(status, target_state) ==
    [power_budget |-> FltMax, err_integral |-> 0, prev_err |-> NaN,
     target_state |-> target_state, computed |-> FALSE]

\* returns the budget and the PID memory after the sample
pidPowerCalculator(value, info, status, time_elapsed_ms) ==
    LET target_state == PidTarget(info, status.severity)
    IN IF NoPid(target_state, status.severity)
       THEN NoPidResult(status, target_state)
       ELSE LET err == At(info.hot_thresholds, target_state) - value
                p == PidProportional(err, At(info.k_po, target_state),
                                     At(info.k_pu, target_state))
                ii == PidIntegral(status.err_integral, err, At(info.k_i, target_state),
                                  At(info.i_cutoff, target_state), At(info.i_max, target_state))
                sum == PidSum(At(info.s_power, target_state) + p + ii[1],
                              At(info.k_d, target_state), err, status.prev_err,
                              time_elapsed_ms)
            IN [power_budget |-> PidClamp(sum, At(info.min_alloc_power, target_state),
                                          At(info.max_alloc_power, target_state)),
                err_integral |-> ii[2], prev_err |-> err,
                target_state |-> target_state, computed |-> TRUE]

----------------------------------------------------------------------------
(* requestCdevByPower *)

RECURSIVE SumWeights(_, _)
SumWeights(cdev_weight, n) ==
    IF n = 0 THEN 0 ELSE SumWeights(cdev_weight, n - 1) + cdev_weight[n]

\* faulty variant: the comparison of the budget with the table is reversed
CdevBudgetLt(total_power_budget, weight, total_weight, p2s_j) ==
    CASE total_power_budget.kind = "nan" -> FALSE
      [] total_power_budget.kind = "max" -> FALSE
      [] OTHER ->
            total_power_budget.num * weight < p2s_j * total_power_budget.den * total_weight

\* cdev_power_budget > power2state[j], cdev_power_budget = total * (weight / total_weight)
CdevBudgetGt(total_power_budget, weight, total_weight, p2s_j) ==
    CASE total_power_budget.kind = "nan" -> FALSE
      [] total_power_budget.kind = "max" ->
            IF weight * total_weight > 0 THEN TRUE
            ELSE IF weight = 0 THEN 0 > p2s_j
            ELSE FALSE
      [] OTHER ->
            IF total_weight > 0
            THEN total_power_budget.num * weight > p2s_j * total_power_budget.den * total_weight
            ELSE total_power_budget.num * weight < p2s_j * total_power_budget.den * total_weight

\* for (j = 0; j < power2state.size() - 1; ++j) if (budget > power2state[j]) break;
RECURSIVE StateForPower(_, _, _, _, _)
StateForPower(power2state, total_power_budget, weight, total_weight, j) ==
    IF j >= Len(power2state) - 1 THEN j
    ELSE IF CdevBudgetGt(total_power_budget, weight, total_weight, power2state[j + 1])
         THEN j
         ELSE StateForPower(power2state, total_power_budget, weight, total_weight, j + 1)

\* the second loop: the pid_request_map after entries 1 .. n of cdev_request.
\* The constructor put every name of cdev_request into pid_request_map and aborted
\* if one was missing from cooling_device_info_map_, so both .at() succeed.
RECURSIVE PowerLoop(_, _, _, _, _, _)
PowerLoop(c, info, pid_request_map, total_power_budget, total_weight, n) ==
    IF n = 0 THEN pid_request_map
    ELSE LET m == PowerLoop(c, info, pid_request_map, total_power_budget, total_weight, n - 1)
             cdev == info.cdev_request[n]
         IN IF cdev = "" THEN m
            ELSE [m EXCEPT ![cdev] =
                     StateForPower(c.cdev_info[cdev].power2state, total_power_budget,
                                   info.cdev_weight[n], total_weight, 0)]

\* faulty variant: a zero total weight clears the requests
requestCdevByPowerReset(c, info, pid_request_map, total_power_budget) ==
    LET total_weight == SumWeights(info.cdev_weight, Len(info.cdev_request))
    IN IF total_weight = 0
       THEN [ok |-> FALSE, pid_request_map |-> [cdev \in DOMAIN pid_request_map |-> 0]]
       ELSE [ok |-> TRUE,
             pid_request_map |-> PowerLoop(c, info, pid_request_map, total_power_budget,
                                           total_weight, Len(info.cdev_request))]

\* returns [ok, pid_request_map]; ok = FALSE is the "total weight is zero" return
requestCdevByPower(c, info, pid_request_map, total_power_budget) ==
    LET total_weight == SumWeights(info.cdev_weight, Len(info.cdev_request))
    IN IF total_weight = 0
       THEN [ok |-> FALSE, pid_request_map |-> pid_request_map]
       ELSE [ok |-> TRUE,
             pid_request_map |-> PowerLoop(c, info, pid_request_map, total_power_budget,
                                           total_weight, Len(info.cdev_request))]

----------------------------------------------------------------------------
(* requestCdevBySeverity *)

RECURSIVE LimitTargetLoop(_, _)
LimitTargetLoop(throttle_type, i) ==
    IF i <= NONE THEN 0
    ELSE IF At(throttle_type, i) = "LIMIT" THEN i
    ELSE LimitTargetLoop(throttle_type, i - 1)

\* faulty variant: the scan does not stop at the first LIMIT severity it meets
requestCdevBySeverityLowest(info, severity, hard_limit_request_map) ==
    LET lim == {i \in 1 .. severity : At(info.throttle_type, i) = "LIMIT"}
        target_state == IF lim = {} THEN 0 ELSE CHOOSE i \in lim : \A o \in lim : i <= o
    IN [cdev \in DOMAIN hard_limit_request_map |->
            IF cdev \in DOMAIN info.limit_info
            THEN At(info.limit_info[cdev], target_state)
            ELSE hard_limit_request_map[cdev]]

requestCdevBySeverity(info, severity, hard_limit_request_map) ==
    LET target_state == LimitTargetLoop(info.throttle_type, severity)
    IN [cdev \in DOMAIN hard_limit_request_map |->
            IF cdev \in DOMAIN info.limit_info
            THEN At(info.limit_info[cdev], target_state)
            ELSE hard_limit_request_map[cdev]]

----------------------------------------------------------------------------
(* The per-sensor aggregation of thermalWatcherCallbackFunc *)

\* cdev_status_map_ is a std::map: iterated in the order of the cdev names
RECURSIVE AggregateLoop(_, _, _, _, _)
AggregateLoop(c, name, status, csm, n) ==
    IF n = 0 THEN [crash |-> FALSE, map |-> csm, updated |-> <<>>]
    ELSE LET r == AggregateLoop(c, name, status, csm, n - 1)
             cdev == c.cdevs[n]
         IN IF r.crash \/ cdev \notin DOMAIN csm THEN r
            ELSE LET has_pid == DOMAIN status.pid_request_map # {}
                     has_limit == DOMAIN status.hard_limit_request_map # {}
                 IN IF \/ has_pid /\ cdev \notin DOMAIN status.pid_request_map
                       \/ has_limit /\ cdev \notin DOMAIN status.hard_limit_request_map
                       \/ name \notin DOMAIN csm[cdev]
                    THEN [r EXCEPT !.crash = TRUE]     \* std::out_of_range from .at()
                    ELSE LET pid_max == IF has_pid THEN status.pid_request_map[cdev] ELSE 0
                             limit_max == IF has_limit
                                          THEN status.hard_limit_request_map[cdev] ELSE 0
                             request_state == MaxOf(pid_max, limit_max)
                         IN IF r.map[cdev][name] # request_state
                            THEN [crash |-> FALSE,
                                  map |-> [r.map EXCEPT ![cdev][name] = request_state],
                                  updated |-> Append(r.updated, cdev)]
                            ELSE r

----------------------------------------------------------------------------
(* updateCoolingDevices *)

\* max_state = 0; for each request: if (request > max_state) max_state = request
RECURSIVE MaxRequest(_, _)
MaxRequest(cdev_status, todo) ==
    IF todo = {} THEN 0
    ELSE LET s == CHOOSE x \in todo : TRUE
             rest == MaxRequest(cdev_status, todo \ {s})
         IN IF cdev_status[s] > rest THEN cdev_status[s] ELSE rest

\* faulty variant: the request of one sensor is written, not the maximum
StateOfOneSensor(csm, target_cdev) ==
    csm[target_cdev][CHOOSE s \in DOMAIN csm[target_cdev] : TRUE]

\* the state written for target_cdev
StateToWrite(csm, target_cdev) == MaxRequest(csm[target_cdev], DOMAIN csm[target_cdev])

\* the writeCdevFile calls for updated_cdev, in order; failing = cdevs whose write fails
updateCoolingDevices(csm, updated_cdev, failing) ==
    [k \in 1 .. Len(updated_cdev) |->
        [cdev |-> updated_cdev[k],
         state |-> StateToWrite(csm, updated_cdev[k]),
         ok |-> updated_cdev[k] \notin failing]]

\* the cur_state files after the writes
RECURSIVE FilesAfter(_, _, _)
FilesAfter(files, ws, n) ==
    IF n = 0 THEN files
    ELSE LET f == FilesAfter(files, ws, n - 1)
         IN IF ws[n].ok THEN [f EXCEPT ![ws[n].cdev] = ws[n].state] ELSE f

----------------------------------------------------------------------------
(* Power hints *)

\* updateSupportedPowerHints: supported_powerhint_map_[sensor], built while
\* scanning the severities upwards; current_severity = highest supported so far
RECURSIVE SupportedScan(_, _)
SupportedScan(supported, severity) ==
    IF severity = NONE THEN NONE
    ELSE IF severity \in supported THEN severity
    ELSE SupportedScan(supported, severity - 1)

\* supported_powerhint_map_[name][severity]; operator[] yields NONE for a
\* sensor that was never entered
SupportedPowerHint(c, name, severity) ==
    IF c.power_hal_up /\ c.sensor_info[name].send_powerhint
    THEN SupportedScan(c.sensor_info[name].supported_hints, severity)
    ELSE NONE

\* faulty variant: the hint is sent with the opposite flag
setModeInverted(hal, log, name, severity, enable, rpc_ok) ==
    IF ~hal.aidl THEN [hal |-> hal, log |-> log]
    ELSE [hal |-> IF rpc_ok THEN hal
                  ELSE [exist |-> FALSE, aidl |-> FALSE, ext |-> FALSE],
          log |-> Append(log, [sensor |-> name, severity |-> severity,
                               enable |-> ~enable, ok |-> rpc_ok])]

\* PowerHalService::setMode: [hal, log] after the call; rpc_ok = the RPC succeeds
setMode(hal, log, name, severity, enable, rpc_ok) ==
    IF ~hal.aidl THEN [hal |-> hal, log |-> log]
    ELSE [hal |-> IF rpc_ok THEN hal
                  ELSE [exist |-> FALSE, aidl |-> FALSE, ext |-> FALSE],
          log |-> Append(log, [sensor |-> name, severity |-> severity,
                               enable |-> enable, ok |-> rpc_ok])]

\* faulty variant: no early return when the hint severity is unchanged
sendPowerExtHintAlways(c, hal, log, name, throttlingStatus, prev_hint_severity, ok1, ok2) ==
    LET current_hint_severity == SupportedPowerHint(c, name, throttlingStatus)
        r1 == IF prev_hint_severity # NONE
              THEN setMode(hal, log, name, prev_hint_severity, FALSE, ok1)
              ELSE [hal |-> hal, log |-> log]
        r2 == IF current_hint_severity # NONE
              THEN setMode(r1.hal, r1.log, name, current_hint_severity, TRUE, ok2)
              ELSE r1
    IN [hal |-> r2.hal, log |-> r2.log, prev_hint_severity |-> current_hint_severity]

\* sendPowerExtHint: [hal, log, prev_hint_severity] after the call
sendPowerExtHint(c, hal, log, name, throttlingStatus, prev_hint_severity, ok1, ok2) ==
    LET current_hint_severity == SupportedPowerHint(c, name, throttlingStatus)
    IN IF prev_hint_severity = current_hint_severity
       THEN [hal |-> hal, log |-> log, prev_hint_severity |-> prev_hint_severity]
       ELSE LET r1 == IF prev_hint_severity # NONE
                      THEN setMode(hal, log, name, prev_hint_severity, FALSE, ok1)
                      ELSE [hal |-> hal, log |-> log]
                r2 == IF current_hint_severity # NONE
                      THEN setMode(r1.hal, r1.log, name, current_hint_severity, TRUE, ok2)
                      ELSE r1
            IN [hal |-> r2.hal, log |-> r2.log,
                prev_hint_severity |-> current_hint_severity]

----------------------------------------------------------------------------
(* checkVirtualSensor *)

\* the loop over linked_sensors; rd[i] = what readThermalFile of linked sensor i
\* (1-based here, i - 1 in the code) yields; returns mTemp
RECURSIVE VirtualLoop(_, _, _)
VirtualLoop(info, rd, n) ==
    IF n = 0 THEN 0
    ELSE LET mTemp == VirtualLoop(info, rd, n - 1)
             sensor_reading == rd[n]
             coefficient == info.coefficients[n]
         IN IF \/ info.linked_sensors[n] = "NAN"
               \/ info.linked_sensors[n] = ""
               \/ sensor_reading = ReadFail
               \/ IsNaN(coefficient)
            THEN mTemp
            ELSE CASE info.formula = "COUNT_THRESHOLD" ->
                        IF \/ coefficient < 0 /\ sensor_reading < 0 - coefficient
                           \/ coefficient >= 0 /\ sensor_reading >= coefficient
                        THEN mTemp + 1 ELSE mTemp
                   [] info.formula = "WEIGHTED_AVG" -> mTemp + sensor_reading * coefficient
                   [] info.formula = "MAXIMUM" ->
                        \* i == 0 resets mTemp to the lowest float first
                        IF n = 1 \/ sensor_reading * coefficient > mTemp
                        THEN sensor_reading * coefficient ELSE mTemp
                   [] info.formula = "MINIMUM" ->
                        IF n = 1 \/ sensor_reading * coefficient < mTemp
                        THEN sensor_reading * coefficient ELSE mTemp
                   [] OTHER -> mTemp

checkVirtualSensor(info, rd) == VirtualLoop(info, rd, Len(info.linked_sensors))

\* what the files of the linked sensors may yield
LinkedReadings(c, info) ==
    [1 .. Len(info.linked_sensors) ->
        {ReadFail} \cup UNION {c.sensor_info[info.linked_sensors[n]].readings :
                                 n \in {m \in 1 .. Len(info.linked_sensors) :
                                          info.linked_sensors[m] \in DOMAIN c.sensor_info}}]

\* the raw text readTemperature may obtain for a sensor (ReadFail: it returns false)
RawReads(c, name) ==
    LET info == c.sensor_info[name]
    IN IF info.is_virtual_sensor
       THEN {checkVirtualSensor(info, rd) : rd \in LinkedReadings(c, info)}
       ELSE {ReadFail} \cup info.readings

----------------------------------------------------------------------------
(* State after construction (ThermalHelper::ThermalHelper) *)

PidCdevs(info) == {info.cdev_request[k] : k \in 1 .. Len(info.cdev_request)}

InitStatus(info) ==
    [severity |-> NONE, prev_hot_severity |-> NONE, prev_cold_severity |-> NONE,
     prev_hint_severity |-> NONE, err_integral |-> 0, prev_err |-> NaN,
     pid_request_map |-> [cdev \in PidCdevs(info) |-> 0],
     hard_limit_request_map |-> [cdev \in DOMAIN info.limit_info |-> 0],
     last_update_time |-> 0]

Requesters(c, cdev) ==
    {s \in SensorNames(c) : cdev \in PidCdevs(c.sensor_info[s])
                            \/ cdev \in DOMAIN c.sensor_info[s].limit_info}

InitCdevStatus(c) ==
    [cdev \in {d \in CdevNames(c) : Requesters(c, d) # {}} |->
        [s \in Requesters(c, cdev) |-> 0]]

\* what an iteration did with a sensor: what = "none" (not reached yet),
\* "unmonitored", "notdue", "readfail", "ok" or "crash"; for "ok" the value read
\* and the budget of pidPowerCalculator; elapsed = time_elapsed_ms
EvalNone == [what |-> "none", value |-> 0, budget |-> FltMax, elapsed |-> 0]
Eval(what, value, budget, elapsed) ==
    [what |-> what, value |-> value, budget |-> budget, elapsed |-> elapsed]

\* no call is running outside the watcher's callback
NoCall == [fn |-> "none"]

\* the members after the constructor has run on configuration c and has left
\* the power service in state hal
Constructed(c, hal) ==
    /\ cfg = c
    /\ now = 0
    /\ uevent_sensors = {}
    /\ pc = "idle"
    /\ idx = 0
    /\ sensor_status_map_ = [s \in SensorNames(c) |-> InitStatus(c.sensor_info[s])]
    /\ cdev_status_map_ = InitCdevStatus(c)
    /\ temps = <<>>
    /\ cooling_devices_to_update = <<>>
    /\ min_sleep_ms = IntMax
    /\ ret_sleep = 0
    /\ cur_state = [cdev \in CdevNames(c) |-> 0]
    /\ power_hal = hal
    /\ writes = <<>>
    /\ rpc_log = <<>>
    /\ cb_log = <<>>
    /\ eval = [s \in SensorNames(c) |-> EvalNone]

\* the PowerHalService of a configuration: connected with its extension, or
\* known to be absent
HalOf(c) == [exist |-> c.power_hal_up, aidl |-> c.power_hal_up, ext |-> c.power_hal_up]

Init ==
    /\ \E c \in Configs : Constructed(c, HalOf(c))
    /\ call = NoCall

----------------------------------------------------------------------------
(* thermalWatcherCallbackFunc *)

\* the watcher thread calls the callback: a uevent or its timer woke it
WatcherWake ==
    /\ call' = call
    /\ pc = "idle"
    /\ \E step \in Steps, ue \in SUBSET UeventCapable(cfg) :
          /\ now + step <= MaxSeconds * 1000
          /\ now' = now + step
          /\ uevent_sensors' = ue
    /\ pc' = "sensors"
    /\ idx' = 1
    /\ UNCHANGED <<cfg, sensor_status_map_, cdev_status_map_, temps,
                   cooling_devices_to_update, min_sleep_ms, ret_sleep, cur_state,
                   power_hal, writes, rpc_log, cb_log, eval>>

\* faulty variant: the polling delay whatever the severity
DueIntervalPolling(info, severity) == info.polling_delay

\* sleep_ms of a sensor at a severity
DueInterval(info, severity) ==
    IF severity # NONE THEN info.passive_delay ELSE info.polling_delay

UeventName(info, name) == IF info.is_virtual_sensor THEN info.trigger_sensor ELSE name

\* faulty variant: the uevent set is searched for the sensor's own name, also for a
\* virtual sensor
NeedUpdateOwnName(info, status, name, t, ue) ==
    ~ (/\ t - status.last_update_time < DueInterval(info, status.severity)
       /\ (ue = {} \/ name \notin ue))

\* the negation of the "continue" condition of the readiness check
NeedUpdate(info, status, name, t, ue) ==
    ~ (/\ t - status.last_update_time < DueInterval(info, status.severity)
       /\ (ue = {} \/ UeventName(info, name) \notin ue))

\* the writer-lock block: the severities of the sample are committed
CommitSeverity(info, status, value) ==
    LET Commit(throtting_status) ==
            [status EXCEPT !.prev_hot_severity = throtting_status[1],
                           !.prev_cold_severity = throtting_status[2],
                           !.severity = MaxOf(throtting_status[1], throtting_status[2])]
    IN Commit(IF info.is_monitor
              THEN getSeverityFromThresholds(info.hot_thresholds, info.cold_thresholds,
                                             info.hot_hysteresis, info.cold_hysteresis,
                                             status.prev_hot_severity,
                                             status.prev_cold_severity, value)
              ELSE <<NONE, NONE>>)

\* if (pid_request_map.size()) { pidPowerCalculator; requestCdevByPower }
ApplyPid(c, info, st1, pid) ==
    IF DOMAIN st1.pid_request_map # {}
    THEN [st1 EXCEPT !.err_integral = pid.err_integral,
                     !.prev_err = pid.prev_err,
                     !.pid_request_map =
                         requestCdevByPower(c, info, @, pid.power_budget).pid_request_map]
    ELSE st1

\* if (hard_limit_request_map.size()) requestCdevBySeverity
ApplyHardLimit(info, st2) ==
    IF DOMAIN st2.hard_limit_request_map # {}
    THEN [st2 EXCEPT !.hard_limit_request_map = requestCdevBySeverity(info, st2.severity, @)]
    ELSE st2

\* the body of the loop for a sensor whose read returned raw: the SensorStatus
\* after the writer-lock block, the PID and the hard limit
Sample(c, name, info, status, raw, t) ==
    LET Result(value, st1, pid) ==
            [status |-> [ApplyHardLimit(info, ApplyPid(c, info, st1, pid))
                            EXCEPT !.last_update_time = t],
             changed |-> st1.severity # status.severity,
             temp |-> [name |-> name, value |-> value, throttlingStatus |-> st1.severity],
             sleep_ms |-> DueInterval(info, st1.severity),
             budget |-> IF DOMAIN st1.pid_request_map # {} THEN pid.power_budget ELSE FltMax]
        Control(value, st1) ==
            Result(value, st1,
                   pidPowerCalculator(value, info, st1, t - status.last_update_time))
        Classify(value) == Control(value, CommitSeverity(info, status, value))
    IN Classify(raw * info.multiplier)

MinOf(a, b) == IF a > b THEN b ELSE a

\* faulty variant: the loop over the sensors is left after its first pass
NextPcAfterFirst(c, i) == "update"

NextPc(c, i) == IF i >= Len(c.sensors) THEN "update" ELSE "sensors"

\* faulty variant: the update time is stamped although the read failed
OnReadFailStamp(status, t) == [status EXCEPT !.last_update_time = t]

\* a failed readTemperature: "continue", the SensorStatus stays as it is
OnReadFail(status, t) == status

\* one pass of the loop over sensor_status_map_
SensorStep ==
    /\ call' = call
    /\ pc = "sensors"
    /\ idx <= Len(cfg.sensors)
    /\ LET name == cfg.sensors[idx]
           info == SensorInfoOf(cfg, name)
           status == sensor_status_map_[name]
           time_elapsed_ms == now - status.last_update_time
       IN IF ~info.is_monitor
          THEN /\ eval' = [eval EXCEPT ![name] = Eval("unmonitored", 0, FltMax, 0)]
               /\ pc' = NextPc(cfg, idx)
               /\ UNCHANGED <<sensor_status_map_, cdev_status_map_, temps,
                              cooling_devices_to_update, min_sleep_ms>>
          ELSE IF ~NeedUpdate(info, status, name, now, uevent_sensors)
          THEN /\ eval' = [eval EXCEPT ![name] = Eval("notdue", 0, FltMax, time_elapsed_ms)]
               /\ min_sleep_ms' = MinOf(min_sleep_ms,
                                        DueInterval(info, status.severity) - time_elapsed_ms)
               /\ pc' = NextPc(cfg, idx)
               /\ UNCHANGED <<sensor_status_map_, cdev_status_map_, temps,
                              cooling_devices_to_update>>
          ELSE \E raw \in RawReads(cfg, name) :
                 IF raw = ReadFail
                 THEN /\ eval' = [eval EXCEPT
                                    ![name] = Eval("readfail", 0, FltMax, time_elapsed_ms)]
                      /\ sensor_status_map_' =
                            [sensor_status_map_ EXCEPT ![name] = OnReadFail(status, now)]
                      /\ pc' = NextPc(cfg, idx)
                      /\ UNCHANGED <<cdev_status_map_, temps,
                                     cooling_devices_to_update, min_sleep_ms>>
                 ELSE LET Commit(r, agg) ==
                              IF agg.crash
                              THEN /\ pc' = "crashed"
                                   /\ eval' = [eval EXCEPT
                                         ![name] = Eval("crash", r.temp.value, r.budget,
                                                        time_elapsed_ms)]
                                   /\ UNCHANGED <<sensor_status_map_, cdev_status_map_,
                                                  temps, cooling_devices_to_update,
                                                  min_sleep_ms>>
                              ELSE /\ sensor_status_map_' =
                                         [sensor_status_map_ EXCEPT ![name] = r.status]
                                   /\ cdev_status_map_' = agg.map
                                   /\ temps' = IF r.changed THEN Append(temps, r.temp)
                                                            ELSE temps
                                   /\ cooling_devices_to_update' =
                                         cooling_devices_to_update \o agg.updated
                                   /\ min_sleep_ms' = MinOf(min_sleep_ms, r.sleep_ms)
                                   /\ eval' = [eval EXCEPT
                                         ![name] = Eval("ok", r.temp.value, r.budget,
                                                        time_elapsed_ms)]
                                   /\ pc' = NextPc(cfg, idx)
                          Aggregate(r) ==
                              Commit(r, IF \/ DOMAIN r.status.pid_request_map # {}
                                           \/ DOMAIN r.status.hard_limit_request_map # {}
                                        THEN AggregateLoop(cfg, name, r.status,
                                                           cdev_status_map_, Len(cfg.cdevs))
                                        ELSE [crash |-> FALSE, map |-> cdev_status_map_,
                                              updated |-> <<>>])
                      IN Aggregate(Sample(cfg, name, info, status, raw, now))
    /\ idx' = idx + 1
    /\ UNCHANGED <<cfg, now, uevent_sensors, ret_sleep, cur_state, power_hal,
                   writes, rpc_log, cb_log>>

\* the cooling devices whose writeCdevFile may return false in an iteration
FailingWrites(c, updated_cdev) ==
    IF c.cdev_write_may_fail
    THEN SUBSET {updated_cdev[k] : k \in 1 .. Len(updated_cdev)}
    ELSE {{}}

\* if (!cooling_devices_to_update.empty()) updateCoolingDevices(...)
UpdateStep ==
    /\ call' = call
    /\ pc = "update"
    /\ \E failing \in FailingWrites(cfg, cooling_devices_to_update) :
          LET ws == updateCoolingDevices(cdev_status_map_, cooling_devices_to_update, failing)
          IN /\ writes' = ws
             /\ cur_state' = FilesAfter(cur_state, ws, Len(ws))
    /\ pc' = "notify"
    /\ idx' = 1
    /\ UNCHANGED <<cfg, now, uevent_sensors, sensor_status_map_, cdev_status_map_, temps,
                   cooling_devices_to_update, min_sleep_ms, ret_sleep, power_hal,
                   rpc_log, cb_log, eval>>

\* faulty variant: send_cb is not consulted
InvokeCallbackAlways(log, info, t) == Append(log, t)

\* if (send_cb && cb_) cb_(t), for the callback the service is built with
InvokeCallback(log, info, t) == IF info.send_cb THEN Append(log, t) ELSE log

\* one pass of the loop over temps: the callback and the power hint
NotifyStep ==
    /\ call' = call
    /\ pc = "notify"
    /\ idx <= Len(temps)
    /\ LET t == temps[idx]
           info == SensorInfoOf(cfg, t.name)
       IN /\ cb_log' = InvokeCallback(cb_log, info, t)
          /\ IF info.send_powerhint /\ power_hal.exist
             THEN \E ok1, ok2 \in BOOLEAN :
                    LET r == sendPowerExtHint(cfg, power_hal, rpc_log, t.name,
                                              t.throttlingStatus,
                                              sensor_status_map_[t.name].prev_hint_severity,
                                              ok1, ok2)
                    IN /\ power_hal' = r.hal
                       /\ rpc_log' = r.log
                       /\ sensor_status_map_' =
                             [sensor_status_map_ EXCEPT
                                 ![t.name].prev_hint_severity = r.prev_hint_severity]
             ELSE UNCHANGED <<power_hal, rpc_log, sensor_status_map_>>
    /\ idx' = idx + 1
    /\ UNCHANGED <<cfg, now, uevent_sensors, pc, cdev_status_map_, temps,
                   cooling_devices_to_update, min_sleep_ms, ret_sleep, cur_state,
                   writes, eval>>

\* return min_sleep_ms < kMinPollIntervalMs ? kMinPollIntervalMs : min_sleep_ms
SleepResult(m) == IF m < kMinPollIntervalMs THEN kMinPollIntervalMs ELSE m

WatcherReturn ==
    /\ call' = call
    /\ pc = "notify"
    /\ idx > Len(temps)
    /\ ret_sleep' = SleepResult(min_sleep_ms)
    /\ pc' = "idle"
    \* the locals of the call end with it
    /\ uevent_sensors' = {}
    /\ idx' = 0
    /\ temps' = <<>>
    /\ cooling_devices_to_update' = <<>>
    /\ min_sleep_ms' = IntMax
    /\ writes' = <<>>
    /\ rpc_log' = <<>>
    /\ cb_log' = <<>>
    /\ eval' = [s \in SensorNames(cfg) |-> EvalNone]
    /\ UNCHANGED <<cfg, now, sensor_status_map_, cdev_status_map_, cur_state, power_hal>>

Next ==
    \/ WatcherWake
    \/ SensorStep
    \/ UpdateStep
    \/ NotifyStep
    \/ WatcherReturn

Spec == Init /\ [][Next]_vars

----------------------------------------------------------------------------
(* Properties *)

SetMax(S) == CHOOSE x \in S : \A y \in S : y <= x
SetMin(S) == CHOOSE x \in S : \A y \in S : x <= y

\* the request of a sensor for a cooling device: the larger of its PID request
\* and its hard-limit request
RequestOf(status, cdev) ==
    MaxOf(IF cdev \in DOMAIN status.pid_request_map
          THEN status.pid_request_map[cdev] ELSE 0,
          IF cdev \in DOMAIN status.hard_limit_request_map
          THEN status.hard_limit_request_map[cdev] ELSE 0)

MaxOverSensors(cdev) ==
    SetMax({RequestOf(sensor_status_map_[s], cdev) : s \in Requesters(cfg, cdev)})

\* the step of the iteration that read sensor s successfully
Sampled(s) == eval[s].what = "none" /\ eval'[s].what = "ok"

\* C1: every state written to a cooling device is the maximum, over the sensors
\* that request the device, of the larger of the sensor's PID request and its
\* hard-limit request, as they are at the moment of the write.
C1_WriteIsMax ==
    \A k \in 1 .. Len(writes) : writes[k].state = MaxOverSensors(writes[k].cdev)

\* sensor s1 requests 3, sensor s2 has escalated to 5, and 5 was written
C1_Witness ==
    /\ cfg.name = "shared"
    /\ pc = "notify"
    /\ RequestOf(sensor_status_map_["s1"], "c1") = 3
    /\ RequestOf(sensor_status_map_["s2"], "c1") = 5
    /\ \E k \in 1 .. Len(writes) : writes[k].cdev = "c1" /\ writes[k].state = 5

WritesTo(ws, cdev) == Cardinality({k \in 1 .. Len(ws) : ws[k].cdev = cdev})

\* C2: in an iteration a cooling device is written at most once, and it is not
\* written at all when the maximum of the sensors' requests equals the state
\* last written to it (the content of its cur_state file).
C2_NoSpuriousWrites ==
    [][pc = "update" =>
          \A cdev \in DOMAIN cdev_status_map_ :
              /\ WritesTo(writes', cdev) <= 1
              /\ MaxOverSensors(cdev) = cur_state[cdev] => WritesTo(writes', cdev) = 0]_vars

\* C3 as stated: with prev_hot_severity = s and hysteresis H[s] > 0, a value that
\* is not below T[s] - H[s] does not yield a hot severity lower than s.
C3_OrigHysteresis ==
    [][\A s \in SensorNames(cfg) :
          Sampled(s) =>
             LET info == SensorInfoOf(cfg, s)
                 prev == sensor_status_map_[s].prev_hot_severity
                 T == At(info.hot_thresholds, prev)
                 H == At(info.hot_hysteresis, prev)
             IN (prev > NONE /\ ~IsNaN(T) /\ H > 0 /\ eval'[s].value >= T - H)
                   => sensor_status_map_'[s].prev_hot_severity >= prev]_vars

\* C3 amended: with prev_hot_severity = s and hysteresis H[s] > 0, a value
\* strictly above T[s] - H[s] does not yield a hot severity lower than s (at
\* T[s] - H[s] itself the severity already drops).
C3_Hysteresis ==
    [][\A s \in SensorNames(cfg) :
          Sampled(s) =>
             LET info == SensorInfoOf(cfg, s)
                 prev == sensor_status_map_[s].prev_hot_severity
                 T == At(info.hot_thresholds, prev)
                 H == At(info.hot_hysteresis, prev)
             IN (prev > NONE /\ ~IsNaN(T) /\ H > 0 /\ eval'[s].value > T - H)
                   => sensor_status_map_'[s].prev_hot_severity >= prev]_vars

\* a reading of 53, below the MODERATE threshold 55 and inside its hysteresis
\* band of 3, has left the sensor at MODERATE
C3_Witness ==
    /\ cfg.name = "pid"
    /\ eval["s1"].what = "ok"
    /\ eval["s1"].value = 53
    /\ sensor_status_map_["s1"].prev_hot_severity = MODERATE

\* the sensor's latest sample ran the PID computation for target
PidActive(s) ==
    /\ eval[s].what = "ok"
    /\ DOMAIN sensor_status_map_[s].pid_request_map # {}
    /\ sensor_status_map_[s].severity # NONE
    /\ PidTarget(SensorInfoOf(cfg, s), sensor_status_map_[s].severity) # 0

\* C4: after every sample |err_integral * k_i[target]| < i_max[target] for the
\* target severity of that sample.
C4_IntegralBound ==
    \A s \in SensorNames(cfg) :
        PidActive(s) =>
           LET info == SensorInfoOf(cfg, s)
               target == PidTarget(info, sensor_status_map_[s].severity)
           IN Abs(sensor_status_map_[s].err_integral * At(info.k_i, target))
                 < At(info.i_max, target)

BudgetSamples ==
    {Fin(n, 1) : n \in {0, 601, 1050, 1500, 3000}} \cup {Fin(2401, 2), FltMax}
WeightSamples(n) ==
    IF n = 1 THEN {<<3>>}
    ELSE IF n = 2 THEN {<<1, 1>>, <<0, 3>>}
    ELSE {}

\* the states requestCdevByPower records for a total budget and a weight list
Allocation(s, weights, budget) ==
    LET info == [SensorInfoOf(cfg, s) EXCEPT !.cdev_weight = weights]
    IN requestCdevByPower(cfg, info, [cdev \in PidCdevs(info) |-> 0], budget).pid_request_map

\* C6: for the same cooling device and the same weight list, a budget b1 <= b2
\* is given a state index j1 >= j2.  Checked for the budget of each sample and
\* the budgets of BudgetSamples, under the sensor's weights and WeightSamples.
C6_Monotone ==
    \A s \in SensorNames(cfg) :
        (eval[s].what = "ok" /\ pc = "update" /\ PidCdevs(SensorInfoOf(cfg, s)) # {}) =>
           LET info == SensorInfoOf(cfg, s)
               budgets == BudgetSamples \cup {eval[s].budget}
           IN \A weights \in WeightSamples(Len(info.cdev_request)) \cup {info.cdev_weight} :
                 LET alloc == [b \in budgets |-> Allocation(s, weights, b)] @@ NoMap
                 IN \A b1, b2 \in budgets :
                       BudgetLe(b1, b2) =>
                          \A cdev \in PidCdevs(info) : alloc[b1][cdev] >= alloc[b2][cdev]

\* a finite budget has been allocated and throttles the two devices differently
C6_Witness ==
    /\ cfg.name = "pid"
    /\ eval["s1"].what = "ok"
    /\ eval["s1"].budget.kind = "fin"
    /\ sensor_status_map_["s1"].pid_request_map["c1"] > 0
    /\ sensor_status_map_["s1"].pid_request_map["c1"]
          # sensor_status_map_["s1"].pid_request_map["c2"]

\* the highest severity <= severity whose hint the power service supports
EffectiveHint(name, severity) ==
    LET sup == {x \in cfg.sensor_info[name].supported_hints : x # NONE /\ x <= severity}
    IN IF cfg.power_hal_up /\ cfg.sensor_info[name].send_powerhint /\ sup # {}
       THEN SetMax(sup) ELSE NONE

\* C7: a call of sendPowerExtHint whose effective hint severity equals
\* prev_hint_severity sends no setMode and leaves prev_hint_severity as it is;
\* and after any call, a second call with the same severity changes nothing.
C7_HintIdempotent ==
    [][(/\ pc = "notify"
        /\ idx <= Len(temps)
        /\ SensorInfoOf(cfg, temps[idx].name).send_powerhint
        /\ power_hal.exist) =>
          LET t == temps[idx]
              prev == sensor_status_map_[t.name].prev_hint_severity
              after == sensor_status_map_'[t.name].prev_hint_severity
          IN /\ prev = EffectiveHint(t.name, t.throttlingStatus) =>
                   /\ rpc_log' = rpc_log
                   /\ after = prev
                   /\ power_hal' = power_hal
             /\ \A ok1, ok2 \in BOOLEAN :
                   LET again == sendPowerExtHint(cfg, power_hal', rpc_log', t.name,
                                                 t.throttlingStatus, after, ok1, ok2)
                   IN /\ again.log = rpc_log'
                      /\ again.prev_hint_severity = after
                      /\ again.hal = power_hal']_vars

\* the severity went from LIGHT to MODERATE, the effective hint stayed LIGHT and
\* the call sent nothing
C7_Witness ==
    /\ cfg.name = "pid"
    /\ pc = "notify"
    /\ idx = 2
    /\ Len(temps) = 1
    /\ temps[1].throttlingStatus = MODERATE
    /\ power_hal.exist
    /\ sensor_status_map_["s1"].prev_hint_severity = LIGHT
    /\ rpc_log = <<>>

\* C8: a monitored sensor is evaluated (its read is attempted) in an iteration
\* exactly if now - last_update_time >= due_interval or its name (its
\* trigger_sensor if it is virtual) is among the uevent sensors; it is
\* classified only then.
C8_Readiness ==
    [][(pc = "sensors" /\ idx <= Len(cfg.sensors)) =>
          LET name == cfg.sensors[idx]
              info == SensorInfoOf(cfg, name)
              st == sensor_status_map_[name]
              due_interval == IF st.severity > NONE THEN info.passive_delay
                                                    ELSE info.polling_delay
              trigger == IF info.is_virtual_sensor THEN info.trigger_sensor ELSE name
              due == \/ now - st.last_update_time >= due_interval
                     \/ trigger \in uevent_sensors
          IN info.is_monitor =>
                /\ eval'[name].what \in {"ok", "readfail", "crash"} <=> due
                /\ eval'[name].what = "notdue" <=> ~due
                /\ sensor_status_map_'[name] # st => due]_vars

\* the virtual sensor was evaluated before its interval elapsed, on the uevent
\* of its trigger sensor
C8_Witness ==
    /\ cfg.name = "virtual"
    /\ eval["v1"].what = "ok"
    /\ eval["v1"].elapsed < SensorInfoOf(cfg, "v1").polling_delay
    /\ uevent_sensors = {"s1"}

\* what the sleep computation is said to take for a sensor
SleepShare(s) ==
    LET info == SensorInfoOf(cfg, s)
        st == sensor_status_map_[s]
        due_interval == IF st.severity > NONE THEN info.passive_delay ELSE info.polling_delay
    IN IF eval[s].what = "ok" THEN due_interval
       ELSE due_interval - (now - st.last_update_time)

\* C9: the returned sleep is max(kMinPollIntervalMs, m), m the minimum over the
\* monitored sensors of the remaining time of a sensor that was not evaluated
\* and the next due interval of an evaluated one.
C9_Sleep ==
    [][(pc = "notify" /\ pc' = "idle") =>
          ret_sleep' = MaxOf(kMinPollIntervalMs,
                             SetMin({SleepShare(s) :
                                       s \in {x \in SensorNames(cfg) :
                                                SensorInfoOf(cfg, x).is_monitor}}))]_vars

\* C10: a failed read of a due sensor changes nothing of the sensor's status
\* (severities, PID memory, request maps, last_update_time), of
\* cdev_status_map_ or of the lists of the iteration, and the iteration issues
\* no notification and no hint for the sensor.
C10_ReadFail ==
    [][/\ \A s \in SensorNames(cfg) :
             (eval[s].what = "none" /\ eval'[s].what = "readfail") =>
                /\ sensor_status_map_'[s] = sensor_status_map_[s]
                /\ cdev_status_map_' = cdev_status_map_
                /\ temps' = temps
                /\ cooling_devices_to_update' = cooling_devices_to_update
       /\ \A k \in 1 .. Len(cb_log') : eval'[cb_log'[k].name].what = "ok"
       /\ \A k \in 1 .. Len(rpc_log') : eval'[rpc_log'[k].sensor].what = "ok"
       /\ \A k \in 1 .. Len(temps') : eval'[temps'[k].name].what = "ok"]_vars

\* the read of a throttled sensor failed
C10_Witness ==
    \E s \in SensorNames(cfg) :
        /\ eval[s].what = "readfail"
        /\ sensor_status_map_[s].severity = MODERATE
        /\ sensor_status_map_[s].last_update_time < now

----------------------------------------------------------------------------
(* Construction: ThermalHelper::ThermalHelper up to the start of the       *)
(* watcher (lines 264-321), over the scans parseThermalPathMap returns.    *)

loop == <<cfg, now, uevent_sensors, pc, idx, sensor_status_map_, cdev_status_map_, temps, cooling_devices_to_update, min_sleep_ms, ret_sleep, cur_state, power_hal, writes, rpc_log, cb_log, eval>>

\* A sensor whose hard limit names a cooling device the configuration lacks.
BadRefS1 == [BaseSensor EXCEPT
    !.throttle_type = <<"NONE", "LIMIT", "LIMIT", "NONE", "NONE", "NONE", "NONE">>,
    !.limit_info = ("c7" :> <<0, 3, 3, 3, 3, 3, 3>>),
    !.readings = {30, 50} ]

CfgBadRef == [
    name |-> "badref",
    sensors |-> <<"s1">>,
    sensor_info |-> ("s1" :> BadRefS1),
    cdevs |-> <<"c1">>,
    cdev_info |-> ("c1" :> [power2state |-> <<1500, 1000, 500, 0>>]),
    cdev_write_may_fail |-> FALSE,
    power_hal_up |-> FALSE ]

StartupConfigs == Configs \cup {CfgBadRef}

\* thermal-zone and cooling-device types a scan of /sys/devices/virtual/thermal
\* can return: those the configurations name and one they do not
ZoneTypes == {"s1", "s2", "z9"}
CdevTypes == {"c1", "c2", "d9"}

\* names for which addThermalFile returns false: none, or one of them
Unaddable(names) == {{}} \cup {{n} : n \in names}

\* the cooling devices a sensor's cdev_request and limit_info name
CdevRefs(info) == PidCdevs(info) \cup DOMAIN info.limit_info

\* the loop of lines 274-302 reaches LOG(FATAL)
UnknownCdevRef(c) == \E s \in SensorNames(c) : ~(CdevRefs(c.sensor_info[s]) \subseteq CdevNames(c))

\* the name initializeSensorMap looks up in path_map (lines 639-642)
LookupName(c, s) == IF c.sensor_info[s].is_virtual_sensor THEN c.sensor_info[s].trigger_sensor ELSE s

\* faulty variant: a virtual sensor is looked up under its own name
initializeSensorMapOwnName(c, path_map, unaddable) ==
    LET thermal_sensors_ == {s \in SensorNames(c) : s \in path_map /\ s \notin unaddable}
    IN [files |-> thermal_sensors_, ok |-> Cardinality(SensorNames(c)) = Cardinality(thermal_sensors_)]

\* initializeSensorMap: the thermal files added and the value returned
initializeSensorMap(c, path_map, unaddable) ==
    LET thermal_sensors_ == {s \in SensorNames(c) : LookupName(c, s) \in path_map /\ s \notin unaddable}
    IN [files |-> thermal_sensors_, ok |-> Cardinality(SensorNames(c)) = Cardinality(thermal_sensors_)]

\* initializeCoolingDevices: the thermal files added and the value returned
initializeCoolingDevices(c, path_map, unaddable) ==
    LET cooling_devices_ == {d \in CdevNames(c) : d \in path_map /\ d \notin unaddable}
    IN [files |-> cooling_devices_, ok |-> Cardinality(CdevNames(c)) = Cardinality(cooling_devices_)]

\* the constructor is entered: the configuration is parsed, the scans and the
\* results of the calls it will make are fixed by the environment
StartupInit ==
    /\ \E c \in StartupConfigs : Constructed(c, HalOf(c))
    /\ \E tz \in SUBSET ZoneTypes, cd \in SUBSET CdevTypes, w \in BOOLEAN :
         \E us \in Unaddable(SensorNames(cfg)), uc \in Unaddable(CdevNames(cfg)) :
            call = [fn |-> "ThermalHelper", at |-> "status_maps", tz_map |-> tz, cdev_map |-> cd,
                    unaddable_sensors |-> us, unaddable_cdevs |-> uc, watch_ok |-> w,
                    thermal_sensors_ |-> {}, cooling_devices_ |-> {}, is_initialized_ |-> FALSE]

\* lines 274-302: the status maps; LOG(FATAL) on an unknown cooling device
CtorStatusMaps ==
    /\ call.fn = "ThermalHelper"
    /\ call.at = "status_maps"
    /\ call' = [call EXCEPT !.at = IF UnknownCdevRef(cfg) THEN "aborted" ELSE "initializeSensorMap"]
    /\ UNCHANGED loop

\* line 308, left operand of &&
CtorInitializeSensorMap ==
    /\ call.fn = "ThermalHelper"
    /\ call.at = "initializeSensorMap"
    /\ LET Step(r) == call' = [call EXCEPT !.thermal_sensors_ = r.files,
                                           !.at = IF r.ok THEN "initializeCoolingDevices" ELSE "aborted"]
       IN Step(initializeSensorMap(cfg, call.tz_map, call.unaddable_sensors))
    /\ UNCHANGED loop

\* line 308, right operand of &&, and lines 309-311
CtorInitializeCoolingDevices ==
    /\ call.fn = "ThermalHelper"
    /\ call.at = "initializeCoolingDevices"
    /\ LET Step(r) == call' = [call EXCEPT !.cooling_devices_ = r.files, !.is_initialized_ = r.ok,
                                           !.at = IF r.ok THEN "startWatching" ELSE "aborted"]
       IN Step(initializeCoolingDevices(cfg, call.cdev_map, call.unaddable_cdevs))
    /\ UNCHANGED loop

\* lines 318-321: is_initialized_ = startWatchingDeviceFiles(); LOG(FATAL) if false
CtorStartWatching ==
    /\ call.fn = "ThermalHelper"
    /\ call.at = "startWatching"
    /\ call' = [call EXCEPT !.is_initialized_ = call.watch_ok,
                            !.at = IF call.watch_ok THEN "ready" ELSE "aborted"]
    /\ UNCHANGED loop

StartupNext ==
    \/ CtorStatusMaps
    \/ CtorInitializeSensorMap
    \/ CtorInitializeCoolingDevices
    \/ CtorStartWatching

StartupSpec == StartupInit /\ [][StartupNext]_vars

\* the constructor has returned or has aborted the process
CtorEnded == call.fn = "ThermalHelper" /\ call.at \in {"ready", "aborted"}

\* a configured sensor whose thermal zone (its trigger sensor's, if virtual)
\* is not in the scan
UnscannedSensors == {s \in SensorNames(cfg) : (IF cfg.sensor_info[s].is_virtual_sensor THEN cfg.sensor_info[s].trigger_sensor ELSE s) \notin call.tz_map}
MissingCdevs == {d \in CdevNames(cfg) : d \notin call.cdev_map}

----------------------------------------------------------------------------
(* PowerHalService over its lifetime: the constructor's connect and         *)
(* updateSupportedPowerHints, then the hints of the watcher's iterations    *)
(* and calls of connectToPowerHal.                                          *)

\* PowerHalService::PowerHalService before its call of connect (line 174)
NewHal == [exist |-> TRUE, aidl |-> FALSE, ext |-> FALSE]

\* what the service manager yields to connect: the first step that fails
ConnectOutcomes == {"ok", "no_binder", "no_aidl", "no_ext_binder", "no_ext"}

\* PowerHalService::connect: the fields after the call, the value returned,
\* and whether AServiceManager_getService was called
connect(hal, outcome) ==
    IF ~hal.exist THEN [hal |-> hal, ret |-> FALSE, tried |-> FALSE]
    ELSE IF hal.aidl THEN [hal |-> hal, ret |-> TRUE, tried |-> FALSE]
    ELSE IF outcome = "no_binder"
         THEN [hal |-> [hal EXCEPT !.exist = FALSE], ret |-> FALSE, tried |-> TRUE]
    ELSE IF outcome = "no_aidl"
         THEN [hal |-> [hal EXCEPT !.exist = FALSE, !.aidl = FALSE], ret |-> FALSE, tried |-> TRUE]
    ELSE IF outcome = "no_ext_binder"
         THEN [hal |-> [hal EXCEPT !.exist = FALSE, !.aidl = TRUE], ret |-> FALSE, tried |-> TRUE]
    ELSE IF outcome = "no_ext"
         THEN [hal |-> [exist |-> FALSE, aidl |-> TRUE, ext |-> FALSE], ret |-> TRUE, tried |-> TRUE]
    ELSE [hal |-> [exist |-> TRUE, aidl |-> TRUE, ext |-> TRUE], ret |-> TRUE, tried |-> TRUE]

\* PowerHalService::isModeSupported: [hal, log] after the call
isModeSupported(hal, log, name, severity, rpc_ok) ==
    IF ~hal.aidl THEN [hal |-> hal, log |-> log]
    ELSE [hal |-> IF rpc_ok THEN hal ELSE [exist |-> FALSE, aidl |-> FALSE, ext |-> FALSE],
          log |-> Append(log, [sensor |-> name, severity |-> severity, enable |-> FALSE, ok |-> rpc_ok])]

\* the sensor whose hints PowerHalSpec follows
HintSensor == "s1"

\* the constructor has built the members and calls connectToPowerHal (line
\* 323); the extension interface is there whenever the power service is;
\* call.rpc_failed = an RPC has failed since
PowerHalInit ==
    \E outcome \in ConnectOutcomes \ {"no_ext"} :
        LET Enter(r) ==
                /\ Constructed(CfgPid, r.hal)
                /\ call = [fn |-> IF r.ret THEN "updateSupportedPowerHints" ELSE "none",
                           severity |-> NONE, tried |-> r.tried, ret |-> r.ret, hinted |-> FALSE,
                           rpc_failed |-> FALSE]
        IN Enter(connect(NewHal, outcome))

\* one pass of the inner loop of updateSupportedPowerHints (lines 1062-1080)
HalIsModeSupported ==
    /\ call.fn = "updateSupportedPowerHints"
    /\ \E rpc_ok \in BOOLEAN :
          LET Step(r) == /\ power_hal' = r.hal
                         /\ rpc_log' = r.log
          IN Step(isModeSupported(power_hal, rpc_log, HintSensor, call.severity, rpc_ok))
    /\ call' = [call EXCEPT !.fn = IF call.severity = SHUTDOWN THEN "none" ELSE @,
                            !.severity = IF call.severity = SHUTDOWN THEN @ ELSE @ + 1,
                            !.rpc_failed = @ \/ (power_hal.exist /\ ~power_hal'.exist)]
    /\ UNCHANGED <<cfg, now, uevent_sensors, pc, idx, sensor_status_map_, cdev_status_map_, temps, cooling_devices_to_update, min_sleep_ms, ret_sleep, cur_state, writes, cb_log, eval>>

\* lines 1044-1046 for the sensor, whose severity changed to severity
HalHint ==
    /\ call.fn # "updateSupportedPowerHints"
    /\ ~call.hinted
    /\ \E severity \in Severities, ok1, ok2 \in BOOLEAN :
          LET Step(r) == /\ power_hal' = r.hal
                         /\ rpc_log' = r.log
                         /\ sensor_status_map_' = [sensor_status_map_ EXCEPT ![HintSensor].prev_hint_severity = r.prev_hint_severity]
          IN IF power_hal.exist
             THEN Step(sendPowerExtHint(cfg, power_hal, rpc_log, HintSensor, severity, sensor_status_map_[HintSensor].prev_hint_severity, ok1, ok2))
             ELSE UNCHANGED <<power_hal, rpc_log, sensor_status_map_>>
    /\ call' = [call EXCEPT !.fn = "none", !.hinted = TRUE,
                            !.rpc_failed = @ \/ (power_hal.exist /\ ~power_hal'.exist)]
    /\ UNCHANGED <<cfg, now, uevent_sensors, pc, idx, cdev_status_map_, temps, cooling_devices_to_update, min_sleep_ms, ret_sleep, cur_state, writes, cb_log, eval>>

\* the iteration (or the constructor) returns; the next one starts
HalNextCycle ==
    /\ call.fn # "updateSupportedPowerHints"
    /\ rpc_log' = <<>>
    /\ call' = [call EXCEPT !.fn = "none", !.hinted = FALSE]
    /\ UNCHANGED <<cfg, now, uevent_sensors, pc, idx, sensor_status_map_, cdev_status_map_, temps, cooling_devices_to_update, min_sleep_ms, ret_sleep, cur_state, power_hal, writes, cb_log, eval>>

\* a call of connectToPowerHal (lines 1053-1055) between two iterations
HalConnect ==
    /\ call.fn # "updateSupportedPowerHints"
    /\ rpc_log = <<>>
    /\ \E outcome \in ConnectOutcomes :
          LET Step(r) == /\ power_hal' = r.hal
                         /\ call' = [call EXCEPT !.fn = "connect", !.tried = r.tried, !.ret = r.ret]
          IN Step(connect(power_hal, outcome))
    /\ UNCHANGED <<cfg, now, uevent_sensors, pc, idx, sensor_status_map_, cdev_status_map_, temps, cooling_devices_to_update, min_sleep_ms, ret_sleep, cur_state, writes, rpc_log, cb_log, eval>>

PowerHalNext ==
    \/ HalIsModeSupported
    \/ HalHint
    \/ HalNextCycle
    \/ HalConnect

PowerHalSpec == PowerHalInit /\ [][PowerHalNext]_vars

\* no RPC follows a failed RPC in the log of a cycle
NoRpcAfterFailure == \A k \in 1 .. Len(rpc_log) : ~rpc_log[k].ok => k = Len(rpc_log)

\* C12: after an RPC failure has marked the peer dead no further RPC is issued
\* within that cycle, and a call of connect made in a later cycle while the
\* peer is not connected asks the service manager for the power service again
\* instead of returning failure without trying.
C12_Recovery ==
    [][/\ NoRpcAfterFailure'
       /\ (HalConnect /\ call.rpc_failed) => call'.tried]_vars

----------------------------------------------------------------------------
(* Snapshot queries of a caller thread: fillTemperatures,                   *)
(* fillCurrentTemperatures and fillCurrentCoolingDevices.                   *)

SnapshotConfigs == {CfgShared, CfgPid, CfgVirtual}

\* SensorInfo::type / CdevInfo::type of the configured names
TypeOf == ("s1" :> "SKIN" @@ "s2" :> "CPU" @@ "v1" :> "SKIN" @@ "c1" :> "CPU" @@ "c2" :> "GPU")
QueryTypes == {"SKIN", "CPU"}

SnapshotFns == {"fillTemperatures", "fillCurrentTemperatures", "fillCurrentCoolingDevices"}

\* the map a query iterates over, in key order
SnapshotNames(c, fn) == IF fn = "fillCurrentCoolingDevices" THEN c.cdevs ELSE c.sensors

\* a default-constructed Temperature_1_0
NoTemperature == [name |-> "", value |-> 0]

\* the thermal file a sensor's name is registered with (initializeSensorMap)
FileReadings(c, name) ==
    IF c.sensor_info[name].is_virtual_sensor
    THEN c.sensor_info[c.sensor_info[name].trigger_sensor].readings
    ELSE c.sensor_info[name].readings

\* readTemperature(name, Temperature_1_0 *) on the text raw
Temperature_1_0(c, name, raw) == [name |-> name, value |-> raw * c.sensor_info[name].multiplier]

\* readTemperature(name, Temperature_2_0 *) on the text raw, with the
\* hysteresis memory read under the shared lock
Temperature_2_0(c, name, status, raw) ==
    LET info == c.sensor_info[name]
        Out(value, throtting_status) == [name |-> name, value |-> value, throttlingStatus |-> MaxOf(throtting_status[1], throtting_status[2])]
        Classify(value) == Out(value, IF info.is_monitor THEN getSeverityFromThresholds(info.hot_thresholds, info.cold_thresholds, info.hot_hysteresis, info.cold_hysteresis, status.prev_hot_severity, status.prev_cold_severity, value) ELSE <<NONE, NONE>>)
    IN Classify(raw * info.multiplier)

\* readCoolingDevice on the content of cur_state
CoolingDevice_2_0(name, data) == [name |-> name, value |-> data]

\* the service is running; no query is in progress
SnapshotInit ==
    /\ \E c \in SnapshotConfigs : Constructed(c, HalOf(c))
    /\ call = NoCall

\* a caller thread enters a query; unreadable = the names whose thermal file
\* cannot be read while the query runs
FillEnter ==
    /\ IF call.fn = "none" THEN TRUE ELSE call.at = "returned"
    /\ \E fn \in SnapshotFns, filterType \in BOOLEAN, type \in QueryTypes :
          /\ fn = "fillTemperatures" => ~filterType /\ type = "SKIN"
          /\ \E unreadable \in SUBSET {SnapshotNames(cfg, fn)[k] : k \in 1 .. Len(SnapshotNames(cfg, fn))} :
                call' = [fn |-> fn, filterType |-> filterType, type |-> type,
                         unreadable |-> unreadable, at |-> "loop", current_index |-> 0,
                         ret |-> <<>>,
                         out |-> IF fn = "fillTemperatures"
                                 THEN [k \in 1 .. Len(cfg.sensors) |-> NoTemperature]
                                 ELSE <<>>,
                         result |-> FALSE]
    /\ UNCHANGED loop

\* one pass of the loop of a query q over the entry name
FillRead(c, q, status_map, files, name, raw) ==
    IF q.filterType /\ TypeOf[name] # q.type
    THEN [q EXCEPT !.current_index = @ + 1]
    ELSE IF name \in q.unreadable
    THEN [q EXCEPT !.at = "returned", !.result = FALSE]
    ELSE IF q.fn = "fillTemperatures"
    THEN [q EXCEPT !.current_index = @ + 1, !.out[q.current_index + 1] = Temperature_1_0(c, name, raw)]
    ELSE IF q.fn = "fillCurrentTemperatures"
    THEN [q EXCEPT !.current_index = @ + 1, !.ret = Append(@, Temperature_2_0(c, name, status_map[name], raw))]
    ELSE [q EXCEPT !.current_index = @ + 1, !.ret = Append(@, CoolingDevice_2_0(name, files[name]))]

FillPass ==
    /\ call.fn \in SnapshotFns
    /\ call.at = "loop"
    /\ call.current_index < Len(SnapshotNames(cfg, call.fn))
    /\ LET name == SnapshotNames(cfg, call.fn)[call.current_index + 1]
       IN \E raw \in (IF call.fn = "fillCurrentCoolingDevices" THEN {0} ELSE FileReadings(cfg, name)) :
             call' = FillRead(cfg, call, sensor_status_map_, cur_state, name, raw)
    /\ UNCHANGED loop

\* the loop has ended: the answer is handed over and its size decides
FillEnd ==
    /\ call.fn \in SnapshotFns
    /\ call.at = "loop"
    /\ call.current_index = Len(SnapshotNames(cfg, call.fn))
    /\ call' = IF call.fn = "fillTemperatures"
               THEN [call EXCEPT !.at = "returned", !.result = call.current_index > 0]
               ELSE [call EXCEPT !.at = "returned", !.out = call.ret, !.result = Len(call.ret) > 0]
    /\ UNCHANGED loop

SnapshotNext ==
    \/ FillEnter
    \/ FillPass
    \/ FillEnd

SnapshotSpec == SnapshotInit /\ [][SnapshotNext]_vars

\* the entries a query selects, and those of them that can be read
Selected == {n \in {SnapshotNames(cfg, call.fn)[k] : k \in 1 .. Len(SnapshotNames(cfg, call.fn))} : call.filterType => TypeOf[n] = call.type}
Readable == Selected \ call.unreadable
Answered == {call.out[k].name : k \in 1 .. Len(call.out)}

\* C13: a snapshot query over several entries of which some cannot be read
\* does not return an error unless the answer it leaves with its caller
\* contains every entry that could be read.
C13_BestEffort ==
    (/\ call.fn \in SnapshotFns
     /\ call.at = "returned"
     /\ ~call.result
     /\ Cardinality(Selected) > 1
     /\ Selected \cap call.unreadable # {})
    => Readable \subseteq Answered

----------------------------------------------------------------------------
(* The control loop on the crossing-up configuration: one sensor with the   *)
(* thresholds 45 / 55 / 65 / 75 / 85 / 95, PID at MODERATE, one cooling     *)
(* device; the overshoot gain k_po[MODERATE] ranges over CrossingGains.     *)

CrossingGains == {0, 20, 40}

CrossingS1(k_po) == [BaseSensor EXCEPT
    !.hot_thresholds = <<NaN, 45, 55, 65, 75, 85, 95>>,
    !.throttle_type = <<"NONE", "NONE", "PID", "NONE", "NONE", "NONE", "NONE">>,
    !.k_po = <<0, 0, k_po, 0, 0, 0, 0>>,
    !.k_pu = <<0, 0, 20, 0, 0, 0, 0>>,
    !.s_power = <<0, 0, 1000, 0, 0, 0, 0>>,
    !.min_alloc_power = <<0, 0, 0, 0, 0, 0, 0>>,
    !.max_alloc_power = <<0, 0, 2000, 0, 0, 0, 0>>,
    !.cdev_request = <<"c1">>, !.cdev_weight = <<1>>,
    !.readings = {40, 50, 60} ]

CfgCrossing(k_po) == [
    name |-> "crossing",
    sensors |-> <<"s1">>,
    sensor_info |-> ("s1" :> CrossingS1(k_po)),
    cdevs |-> <<"c1">>,
    cdev_info |-> ("c1" :> [power2state |-> <<1500, 1000, 500, 0>>]),
    cdev_write_may_fail |-> FALSE,
    power_hal_up |-> FALSE ]

CrossingInit ==
    /\ \E k_po \in CrossingGains : Constructed(CfgCrossing(k_po), HalOf(CfgCrossing(k_po)))
    /\ call = NoCall

CrossingSpec == CrossingInit /\ [][Next]_vars

\* the step samples s1 at value while its stored severity is previous
CrossingSample(previous, value) ==
    /\ Sampled("s1")
    /\ sensor_status_map_["s1"].severity = previous
    /\ eval'["s1"].value = value

\* the readings 40, 50, 60 in this order give NONE, LIGHT, MODERATE
CrossingSeverities ==
    /\ CrossingSample(NONE, 40) => sensor_status_map_'["s1"].severity = NONE
    /\ CrossingSample(NONE, 50) => sensor_status_map_'["s1"].severity = LIGHT
    /\ CrossingSample(LIGHT, 60) => sensor_status_map_'["s1"].severity = MODERATE

\* C14 as stated: with s_power = 1000, k_pu = 20, k_i = k_d = 0 and
\* hot_thresholds[MODERATE] = 55, the budget at value 60 (after 40 and 50) is
\* 1000 + (55 - 60) * 20 = 900 and the cooling device is asked for state 2.
C14_OrigCrossing ==
    [][/\ CrossingSeverities
       /\ CrossingSample(LIGHT, 60) =>
             /\ eval'["s1"].budget.kind = "fin"
             /\ eval'["s1"].budget.num = 900 * eval'["s1"].budget.den
             /\ sensor_status_map_'["s1"].pid_request_map["c1"] = 2]_vars

\* C14 amended: the readings 40, 50, 60 give NONE, LIGHT, MODERATE; at value
\* 60 the error 55 - 60 is negative, so the gain applied is the overshoot gain
\* k_po[MODERATE]: when time has elapsed since the sample at 50 the budget is
\* 1000 + (55 - 60) * k_po[MODERATE], which is 900 for k_po[MODERATE] = 20,
\* and for a budget of 900 the cooling device is asked for state 2.
C14_Crossing ==
    [][/\ CrossingSeverities
       /\ (CrossingSample(LIGHT, 60) /\ eval'["s1"].elapsed > 0) =>
             /\ eval'["s1"].budget.kind = "fin"
             /\ eval'["s1"].budget.num = (1000 - 5 * At(cfg.sensor_info["s1"].k_po, MODERATE)) * eval'["s1"].budget.den
             /\ At(cfg.sensor_info["s1"].k_po, MODERATE) = 20 =>
                   /\ eval'["s1"].budget.num = 900 * eval'["s1"].budget.den
                   /\ sensor_status_map_'["s1"].pid_request_map["c1"] = 2]_vars

\* with k_po[MODERATE] = 20 the sample at 60 has raised the sensor to
\* MODERATE, got the budget 900 and asked for state 2
C14_Witness ==
    /\ cfg.name = "crossing"
    /\ At(cfg.sensor_info["s1"].k_po, MODERATE) = 20
    /\ eval["s1"].what = "ok"
    /\ eval["s1"].value = 60
    /\ eval["s1"].elapsed > 0
    /\ eval["s1"].budget.kind = "fin"
    /\ eval["s1"].budget.num = 900 * eval["s1"].budget.den
    /\ sensor_status_map_["s1"].severity = MODERATE
    /\ sensor_status_map_["s1"].prev_err = 0 - 5
    /\ sensor_status_map_["s1"].pid_request_map["c1"] = 2

----------------------------------------------------------------------------
(* sensor_status_map_mutex_: the watcher thread and caller threads at the   *)
(* granularity of the lock operations, for the sensor of CfgPid.  The       *)
(* watcher reads the sensor (readTemperature, shared lock), commits the     *)
(* severities (unique_lock, lines 966-982) and sends the power hint         *)
(* (lock_guard, lines 1086-1105); a caller runs readTemperature.            *)

Callers == {"t1", "t2"}
Threads == {"watcher"} \cup Callers
LockSensor == "s1"

\* a thread outside of the functions that use the mutex
IdleThread == [at |-> "idle", raw |-> 0, prev_hot_severity |-> NONE, prev_cold_severity |-> NONE, throtting_status |-> <<NONE, NONE>>, changed |-> FALSE]

\* std::shared_mutex: lock_shared succeeds when no thread holds it exclusively,
\* lock when no thread holds it at all
CanLockShared(mutex) == mutex.writer = "none"
CanLockExclusive(mutex) == mutex.writer = "none" /\ mutex.readers = {}

\* faulty variant: the watcher writes the severities without taking the lock
AfterReadTemperatureUnlocked(t) == IF t = "watcher" THEN "write_hot" ELSE "idle"

\* where a thread continues after readTemperature: the watcher at the
\* writer-lock block of line 968, a caller back in its query
AfterReadTemperature(t) == IF t = "watcher" THEN "commit_lock" ELSE "idle"

LockInit ==
    /\ Constructed(CfgPid, HalOf(CfgPid))
    /\ call = [fn |-> "threads", mutex |-> [writer |-> "none", readers |-> {}],
               th |-> [t \in Threads |-> IdleThread]]

LockFrame == UNCHANGED <<cfg, now, uevent_sensors, pc, idx, cdev_status_map_, temps, cooling_devices_to_update, min_sleep_ms, ret_sleep, cur_state, writes, cb_log, eval>>

\* a thread has read the sensor's file in readTemperature (lines 388-408)
ThreadRead ==
    /\ \E t \in Threads, raw \in cfg.sensor_info[LockSensor].readings :
          /\ call.th[t].at = "idle"
          /\ call' = [call EXCEPT !.th[t] = [IdleThread EXCEPT !.at = "read_lock", !.raw = raw]]
    /\ UNCHANGED <<sensor_status_map_, power_hal, rpc_log>>
    /\ LockFrame

\* line 417: std::shared_lock
ReadLock ==
    /\ \E t \in Threads :
          /\ call.th[t].at = "read_lock"
          /\ CanLockShared(call.mutex)
          /\ call' = [call EXCEPT !.mutex.readers = @ \cup {t}, !.th[t].at = "read_prev"]
    /\ UNCHANGED <<sensor_status_map_, power_hal, rpc_log>>
    /\ LockFrame

\* lines 418-423: the two reads, the end of the lock's scope, the classifier
ReadPrev ==
    /\ \E t \in Threads :
          /\ call.th[t].at = "read_prev"
          /\ LET info == cfg.sensor_info[LockSensor]
                 status == sensor_status_map_[LockSensor]
             IN call' = [call EXCEPT
                   !.mutex.readers = @ \ {t},
                   !.th[t].prev_hot_severity = status.prev_hot_severity,
                   !.th[t].prev_cold_severity = status.prev_cold_severity,
                   !.th[t].throtting_status = getSeverityFromThresholds(info.hot_thresholds, info.cold_thresholds, info.hot_hysteresis, info.cold_hysteresis, status.prev_hot_severity, status.prev_cold_severity, call.th[t].raw * info.multiplier),
                   !.th[t].at = AfterReadTemperature(t)]
    /\ UNCHANGED <<sensor_status_map_, power_hal, rpc_log>>
    /\ LockFrame

\* line 968: std::unique_lock
CommitLock ==
    /\ call.th["watcher"].at = "commit_lock"
    /\ CanLockExclusive(call.mutex)
    /\ call' = [call EXCEPT !.mutex.writer = "watcher", !.th["watcher"].at = "write_hot"]
    /\ UNCHANGED <<sensor_status_map_, power_hal, rpc_log>>
    /\ LockFrame

\* lines 969-971
WriteHot ==
    /\ call.th["watcher"].at = "write_hot"
    /\ sensor_status_map_' = [sensor_status_map_ EXCEPT ![LockSensor].prev_hot_severity = call.th["watcher"].throtting_status[1]]
    /\ call' = [call EXCEPT !.th["watcher"].at = "write_cold"]
    /\ UNCHANGED <<power_hal, rpc_log>>
    /\ LockFrame

\* lines 972-974
WriteCold ==
    /\ call.th["watcher"].at = "write_cold"
    /\ sensor_status_map_' = [sensor_status_map_ EXCEPT ![LockSensor].prev_cold_severity = call.th["watcher"].throtting_status[2]]
    /\ call' = [call EXCEPT !.th["watcher"].at = "write_severity"]
    /\ UNCHANGED <<power_hal, rpc_log>>
    /\ LockFrame

\* lines 975-981
WriteSeverity ==
    /\ call.th["watcher"].at = "write_severity"
    /\ LET throttlingStatus == MaxOf(call.th["watcher"].throtting_status[1], call.th["watcher"].throtting_status[2])
       IN /\ sensor_status_map_' = [sensor_status_map_ EXCEPT ![LockSensor].severity = throttlingStatus]
          /\ call' = [call EXCEPT !.th["watcher"].changed = throttlingStatus # sensor_status_map_[LockSensor].severity,
                                  !.th["watcher"].at = "commit_unlock"]
    /\ UNCHANGED <<power_hal, rpc_log>>
    /\ LockFrame

\* line 982: the end of the unique_lock's scope; lines 1038-1046 decide
\* whether sendPowerExtHint is called
CommitUnlock ==
    /\ call.th["watcher"].at = "commit_unlock"
    /\ call' = [call EXCEPT !.mutex.writer = "none",
                            !.th["watcher"].at = IF call.th["watcher"].changed /\ cfg.sensor_info[LockSensor].send_powerhint /\ power_hal.exist
                                                 THEN "hint_lock" ELSE "idle"]
    /\ UNCHANGED <<sensor_status_map_, power_hal, rpc_log>>
    /\ LockFrame

\* line 1087: std::lock_guard
HintLock ==
    /\ call.th["watcher"].at = "hint_lock"
    /\ CanLockExclusive(call.mutex)
    /\ call' = [call EXCEPT !.mutex.writer = "watcher", !.th["watcher"].at = "hint"]
    /\ UNCHANGED <<sensor_status_map_, power_hal, rpc_log>>
    /\ LockFrame

\* lines 1089-1104 under the lock_guard; the pass is an iteration of its own,
\* so its RPCs are the RPCs of the iteration
HintWrite ==
    /\ call.th["watcher"].at = "hint"
    /\ \E ok1, ok2 \in BOOLEAN :
          LET Step(r) == /\ power_hal' = r.hal
                         /\ rpc_log' = r.log
                         /\ sensor_status_map_' = [sensor_status_map_ EXCEPT ![LockSensor].prev_hint_severity = r.prev_hint_severity]
          IN Step(sendPowerExtHint(cfg, power_hal, <<>>, LockSensor, sensor_status_map_[LockSensor].severity, sensor_status_map_[LockSensor].prev_hint_severity, ok1, ok2))
    /\ call' = [call EXCEPT !.th["watcher"].at = "hint_unlock"]
    /\ LockFrame

\* line 1105: the end of the lock_guard's scope
HintUnlock ==
    /\ call.th["watcher"].at = "hint_unlock"
    /\ call' = [call EXCEPT !.mutex.writer = "none", !.th["watcher"].at = "idle"]
    /\ UNCHANGED <<sensor_status_map_, power_hal, rpc_log>>
    /\ LockFrame

LockNext ==
    \/ ThreadRead
    \/ ReadLock
    \/ ReadPrev
    \/ CommitLock
    \/ WriteHot
    \/ WriteCold
    \/ WriteSeverity
    \/ CommitUnlock
    \/ HintLock
    \/ HintWrite
    \/ HintUnlock

LockSpec == LockInit /\ [][LockNext]_vars

\* the positions at which a thread reads, and the watcher writes, the fields
\* severity, prev_hot_severity, prev_cold_severity and prev_hint_severity
ReadPositions == {"read_prev"}
WritePositions == {"write_hot", "write_cold", "write_severity", "hint"}
LockedFields(status) == <<status.severity, status.prev_hot_severity, status.prev_cold_severity, status.prev_hint_severity>>

\* C15: a step of a caller thread leaves SensorStatus unchanged; the watcher
\* is at a write of severity, prev_hot_severity, prev_cold_severity or
\* prev_hint_severity only while it holds sensor_status_map_mutex_ exclusively,
\* and only such a step changes these fields; a caller is at its reads of them
\* only while it holds the mutex shared; so no caller is at a read while the
\* watcher is at a write.
C15_LockDiscipline ==
    [][/\ (\E t \in Callers : call'.th[t] # call.th[t]) => sensor_status_map_' = sensor_status_map_
       /\ LockedFields(sensor_status_map_'[LockSensor]) # LockedFields(sensor_status_map_[LockSensor])
             => call.th["watcher"].at \in WritePositions /\ call.th["watcher"] # call'.th["watcher"]
       /\ call'.th["watcher"].at \in WritePositions
             => call'.mutex.writer = "watcher" /\ call'.mutex.readers = {}
       /\ \A t \in Callers :
             call'.th[t].at \in ReadPositions
                => /\ t \in call'.mutex.readers
                   /\ call'.mutex.writer = "none"
                   /\ call'.th["watcher"].at \notin WritePositions]_vars

\* the watcher holds the mutex exclusively and is about to raise the severity
\* while one caller waits for the shared lock
C15_Witness ==
    /\ call.fn = "threads"
    /\ call.th["watcher"].at = "write_severity"
    /\ call.mutex.writer = "watcher"
    /\ call.th["watcher"].throtting_status[1] > sensor_status_map_[LockSensor].severity
    /\ \E t \in Callers : call.th[t].at = "read_lock"

----------------------------------------------------------------------------
(* Order of the effects of one iteration *)

\* every sensor of the iteration has been through the loop body
AllSensorsProcessed == \A s \in SensorNames(cfg) : eval[s].what # "none"

\* the step writes cooling devices / invokes the callback or sends an RPC /
\* runs the loop body for a sensor
StepWrites == writes' # writes /\ writes' # <<>>
StepNotifies == (cb_log' # cb_log /\ cb_log' # <<>>) \/ (rpc_log' # rpc_log /\ rpc_log' # <<>>)
StepProcesses == \E s \in SensorNames(cfg) : eval[s].what = "none" /\ eval'[s].what # "none"

\* C16: within an iteration no cooling device is written and nothing is
\* notified before every sensor has been processed; the cooling-device writes
\* (one per entry of cooling_devices_to_update) are all made in between, after
\* the last sensor and before the first callback or power-hint RPC.
C16_Ordering ==
    [][/\ StepProcesses => writes = <<>> /\ cb_log = <<>> /\ rpc_log = <<>>
       /\ StepWrites =>
             /\ AllSensorsProcessed
             /\ writes = <<>> /\ cb_log = <<>> /\ rpc_log = <<>>
             /\ Len(writes') = Len(cooling_devices_to_update)
             /\ sensor_status_map_' = sensor_status_map_
             /\ cdev_status_map_' = cdev_status_map_
       /\ StepNotifies =>
             /\ AllSensorsProcessed
             /\ writes' = writes
             /\ Len(writes) = Len(cooling_devices_to_update)]_vars

\* both cooling devices were written, then the callback ran and a hint was sent
C16_Witness ==
    /\ cfg.name = "pid"
    /\ pc = "notify"
    /\ Len(writes) >= 2
    /\ Len(cb_log) = 1
    /\ Len(rpc_log) >= 1

----------------------------------------------------------------------------
(* The notification sink *)

\* how often sensor s appears in a log of Temperature records
TimesIn(log, s) == Cardinality({k \in 1 .. Len(log) : log[k].name = s})

\* C17: a sensor is entered once in the iteration's list of changed sensors when
\* the loop body has read it and the severity it classified differs from the
\* stored one, and not otherwise; when the iteration returns the callback has
\* been invoked exactly once for each listed sensor whose send_cb is set and
\* not at all for any other sensor.
C17_Callback ==
    [][/\ \A s \in SensorNames(cfg) :
             /\ Sampled(s) =>
                   TimesIn(temps', s) = IF sensor_status_map_'[s].severity # sensor_status_map_[s].severity THEN 1 ELSE 0
             /\ (eval[s].what = "none" /\ eval'[s].what \notin {"none", "ok"}) =>
                   /\ TimesIn(temps', s) = 0
                   /\ sensor_status_map_'[s].severity = sensor_status_map_[s].severity
             /\ eval'[s].what = "none" => TimesIn(temps', s) = 0
       /\ (pc = "notify" /\ pc' = "idle") =>
             \A s \in SensorNames(cfg) :
                 TimesIn(cb_log, s) = IF TimesIn(temps, s) = 1 /\ SensorInfoOf(cfg, s).send_cb THEN 1 ELSE 0]_vars

\* both sensors changed severity in the iteration; the callback ran for s1
\* only, s2 has send_cb unset
C17_Witness ==
    /\ cfg.name = "shared"
    /\ pc = "notify"
    /\ idx > Len(temps)
    /\ TimesIn(temps, "s1") = 1
    /\ TimesIn(temps, "s2") = 1
    /\ TimesIn(cb_log, "s1") = 1
    /\ TimesIn(cb_log, "s2") = 0

----------------------------------------------------------------------------
(* getSeverityFromThresholds and the severity readTemperature reports, on   *)
(* threshold and hysteresis arrays, previous severities and values drawn    *)
(* from the sets below.                                                     *)

HotThresholdArrays == {<<NaN, 45, 55, 65, NaN, NaN, 95>>, <<NaN, NaN, 50, 50, 40, NaN, NaN>>, AllNaN}
ColdThresholdArrays == {AllNaN, <<NaN, 10, 5, 0, NaN, NaN, 0 - 20>>, <<NaN, 48, NaN, 52, NaN, NaN, NaN>>}
HotHysteresisArrays == {Zeros, <<0, 2, 3, 3, 0, 0, 12>>, <<0, 2, 3, 15, 0, 0, 0>>}
ColdHysteresisArrays == {Zeros, <<0, 2, 3, 3, 0, 0, 5>>}
ClassifierValues == {0 - 20, 0, 3, 7, 10, 45, 47, 50, 52, 53, 55, 62, 65, 84, 95}

\* a call of readTemperature is about to classify the value it read
ClassifierInit ==
    /\ Constructed(CfgClamp, HalOf(CfgClamp))
    /\ \E ht \in HotThresholdArrays, ct \in ColdThresholdArrays, hh \in HotHysteresisArrays, ch \in ColdHysteresisArrays :
         \E ph \in Severities, pcs \in Severities, v \in ClassifierValues :
            call = [fn |-> "getSeverityFromThresholds", at |-> "called",
                    hot_thresholds |-> ht, cold_thresholds |-> ct,
                    hot_hysteresis |-> hh, cold_hysteresis |-> ch,
                    prev_hot_severity |-> ph, prev_cold_severity |-> pcs, value |-> v,
                    status |-> <<NONE, NONE>>, throttlingStatus |-> NONE]

\* lines 421-431: the classifier and out->throttlingStatus
ClassifierCall ==
    /\ call.fn = "getSeverityFromThresholds"
    /\ call.at = "called"
    /\ LET Return(status) == call' = [call EXCEPT !.at = "returned", !.status = status, !.throttlingStatus = MaxOf(status[1], status[2])]
       IN Return(getSeverityFromThresholds(call.hot_thresholds, call.cold_thresholds, call.hot_hysteresis, call.cold_hysteresis, call.prev_hot_severity, call.prev_cold_severity, call.value))
    /\ UNCHANGED loop

ClassifierSpec == ClassifierInit /\ [][ClassifierCall]_vars

\* the highest severity in LIGHT..SHUTDOWN of a set, NONE for the empty set
HighestOf(S) == IF S = {} THEN NONE ELSE SetMax(S)
Levels == LIGHT .. SHUTDOWN

RawHot == HighestOf({i \in Levels : ~IsNaN(At(call.hot_thresholds, i)) /\ At(call.hot_thresholds, i) <= call.value})
HystHot == HighestOf({i \in Levels : ~IsNaN(At(call.hot_thresholds, i)) /\ At(call.hot_thresholds, i) - At(call.hot_hysteresis, i) < call.value})
RawCold == HighestOf({i \in Levels : ~IsNaN(At(call.cold_thresholds, i)) /\ At(call.cold_thresholds, i) >= call.value})
HystCold == HighestOf({i \in Levels : ~IsNaN(At(call.cold_thresholds, i)) /\ At(call.cold_thresholds, i) + At(call.cold_hysteresis, i) > call.value})

\* C18: getSeverityFromThresholds returns hot = raw_hot (the highest level whose
\* non-NaN hot threshold is <= value, else NONE) unless raw_hot < prev_hot, and
\* then hot_hyst (the highest level with threshold - hysteresis < value, else
\* NONE); cold likewise with >= and threshold + hysteresis > value; and the
\* severity reported is the larger of hot and cold.
C18_Classifier ==
    (call.fn = "getSeverityFromThresholds" /\ call.at = "returned") =>
        /\ call.status[1] = IF RawHot < call.prev_hot_severity THEN HystHot ELSE RawHot
        /\ call.status[2] = IF RawCold < call.prev_cold_severity THEN HystCold ELSE RawCold
        /\ call.throttlingStatus = IF call.status[1] > call.status[2] THEN call.status[1] ELSE call.status[2]

\* both hysteresis memories decided (the raw severities fell below the
\* previous ones and the bands still hold a level), and the cold severity,
\* the larger one, is reported
C18_Witness ==
    /\ call.fn = "getSeverityFromThresholds"
    /\ call.at = "returned"
    /\ RawHot < call.prev_hot_severity /\ HystHot > RawHot
    /\ RawCold < call.prev_cold_severity /\ HystCold > RawCold
    /\ call.status = <<HystHot, HystCold>>
    /\ call.status[2] > call.status[1]
    /\ call.status[1] > NONE
    /\ call.throttlingStatus = call.status[2]

----------------------------------------------------------------------------
(* The PID target of pidPowerCalculator, over every throttle_type array *)

ThrottleTypes == {"NONE", "LIMIT", "PID"}
ThrottleTypeArrays == [1..kThrottlingSeverityCount -> ThrottleTypes]
TargetValues == {40, 60}
TargetPrevErrs == {NaN, 5}

\* a sensor with a hot threshold and PID parameters at every severity
TargetInfo(throttle_type) == [BaseSensor EXCEPT
    !.hot_thresholds = <<NaN, 45, 50, 55, 60, 65, 70>>,
    !.throttle_type = throttle_type,
    !.k_po = <<0, 10, 10, 10, 10, 10, 10>>,
    !.k_pu = <<0, 5, 5, 5, 5, 5, 5>>,
    !.s_power = <<0, 1000, 900, 800, 700, 600, 500>>,
    !.min_alloc_power = <<0, 100, 100, 100, 100, 100, 100>>,
    !.max_alloc_power = <<0, 2000, 2000, 2000, 2000, 2000, 2000>> ]

TargetInit ==
    /\ Constructed(CfgPid, HalOf(CfgPid))
    /\ \E tt \in ThrottleTypeArrays, sev \in Severities, v \in TargetValues, pe \in TargetPrevErrs :
          call = [fn |-> "pidPowerCalculator", at |-> "called",
                  throttle_type |-> tt, value |-> v,
                  sensor_status |-> [severity |-> sev, err_integral |-> 3, prev_err |-> pe],
                  target_state |-> 0, computed |-> FALSE, power_budget |-> FltMax]

\* lines 458-519: one call of pidPowerCalculator
TargetCall ==
    /\ call.fn = "pidPowerCalculator"
    /\ call.at = "called"
    /\ LET Return(r) == call' = [call EXCEPT !.at = "returned",
                                    !.sensor_status.err_integral = r.err_integral,
                                    !.sensor_status.prev_err = r.prev_err,
                                    !.target_state = r.target_state,
                                    !.computed = r.computed,
                                    !.power_budget = r.power_budget]
       IN Return(pidPowerCalculator(call.value, TargetInfo(call.throttle_type), call.sensor_status, 1000))
    /\ UNCHANGED loop

TargetSpec == TargetInit /\ [][TargetCall]_vars

\* the severities whose throttle_type is PID in the call
PidStates == {st \in Severities : At(call.throttle_type, st) = "PID"}
LowestOf(S) == CHOOSE st \in S : \A o \in S : st <= o
PidAbove == {st \in PidStates : st > call.sensor_status.severity}
TargetReturned == call.fn = "pidPowerCalculator" /\ call.at = "returned"

\* C19 as stated: the target severity is the lowest severity whose
\* throttle_type is PID, or the current severity when that is higher.
C19_OrigPidTarget ==
    (TargetReturned /\ PidStates # {}) =>
        call.target_state = IF call.sensor_status.severity > LowestOf(PidStates)
                            THEN call.sensor_status.severity
                            ELSE LowestOf(PidStates)

\* C19: the target severity pidPowerCalculator uses is the lowest severity
\* whose throttle_type is PID and that is strictly above the sensor's current
\* severity; when no PID severity is above the current one it is the highest
\* PID severity; and it is 0 when no severity has throttle_type PID.
C19_PidTarget ==
    TargetReturned =>
        call.target_state = IF PidAbove # {} THEN LowestOf(PidAbove)
                            ELSE IF PidStates # {} THEN HighestOf(PidStates)
                            ELSE 0

\* the current severity is a PID severity above the lowest one, a further PID
\* severity lies above it, and that one is the target
C19_Witness ==
    /\ TargetReturned
    /\ call.sensor_status.severity \in PidStates
    /\ call.sensor_status.severity > LowestOf(PidStates)
    /\ PidAbove # {}
    /\ call.target_state = LowestOf(PidAbove)
    /\ call.target_state > call.sensor_status.severity
    /\ call.computed

\* C20 as stated: when the highest PID severity is below the current severity,
\* target_state stays 0 and the maximum budget is returned without a PID
\* computation.
C20_OrigNoPid ==
    (TargetReturned /\ PidStates # {} /\ HighestOf(PidStates) < call.sensor_status.severity) =>
        /\ call.target_state = 0
        /\ ~call.computed
        /\ call.power_budget = FltMax

\* C20: when the highest PID severity is below the current severity,
\* target_state is that highest PID severity; pidPowerCalculator returns the
\* maximum budget without computing a PID output (and resets err_integral to 0
\* and prev_err to NaN) exactly when no severity from LIGHT up has throttle_type
\* PID or the current severity is NONE.
C20_NoPid ==
    TargetReturned =>
        /\ (PidStates # {} /\ HighestOf(PidStates) < call.sensor_status.severity) =>
               call.target_state = HighestOf(PidStates)
        /\ ~call.computed <=> (PidStates \ {NONE} = {} \/ call.sensor_status.severity = NONE)
        /\ ~call.computed =>
               /\ call.power_budget = FltMax
               /\ call.sensor_status.err_integral = 0
               /\ IsNaN(call.sensor_status.prev_err)
        /\ call.computed =>
               /\ call.power_budget # FltMax
               /\ call.sensor_status.prev_err = At(TargetInfo(call.throttle_type).hot_thresholds, call.target_state) - call.value

\* the highest PID severity is below the current severity and a PID output was
\* computed against it
C20_Witness ==
    /\ TargetReturned
    /\ PidStates \ {NONE} # {}
    /\ HighestOf(PidStates) < call.sensor_status.severity
    /\ call.target_state = HighestOf(PidStates)
    /\ call.computed
    /\ call.power_budget # FltMax

----------------------------------------------------------------------------
(* The reset of the PID memory *)

\* sensor s has PID requests, so each of its samples calls pidPowerCalculator
HasPid(s) == DOMAIN sensor_status_map_[s].pid_request_map # {}

\* the step samples s, which was at NONE, at a severity with a PID target
ReEntered(s) ==
    /\ Sampled(s)
    /\ HasPid(s)
    /\ sensor_status_map_[s].severity = NONE
    /\ sensor_status_map_'[s].severity # NONE
    /\ PidTarget(SensorInfoOf(cfg, s), sensor_status_map_'[s].severity) # 0

\* the sample of s in this step took the early return of pidPowerCalculator
ResetSample(s) ==
    /\ Sampled(s)
    /\ HasPid(s)
    /\ \/ sensor_status_map_'[s].severity = NONE
       \/ \A st \in Severities : At(SensorInfoOf(cfg, s).throttle_type, st) # "PID"

WasReset(s) ==
    /\ sensor_status_map_'[s].err_integral = 0
    /\ IsNaN(sensor_status_map_'[s].prev_err)
    /\ eval'[s].budget = FltMax

\* C21 as stated: a call for a sensor without PID severity or at NONE resets
\* the PID memory and returns the maximum budget, and the first sample after
\* the sensor re-enters throttling has a zero integral term and a zero
\* derivative term.
C21_OrigReset ==
    [][\A s \in SensorNames(cfg) :
          /\ ResetSample(s) => WasReset(s)
          /\ ReEntered(s) =>
                LET info == SensorInfoOf(cfg, s)
                    target == PidTarget(info, sensor_status_map_'[s].severity)
                IN /\ sensor_status_map_'[s].err_integral * At(info.k_i, target) = 0
                   /\ IsNaN(sensor_status_map_[s].prev_err)]_vars

\* C21: a call of pidPowerCalculator for a sensor without PID severity or at
\* severity NONE sets err_integral = 0 and prev_err = NaN and returns the
\* maximum budget; so the first sample after the sensor re-enters throttling
\* starts from err_integral = 0 and prev_err = NaN whatever happened before:
\* its derivative term is 0, and its integral term is err * k_i[target] when
\* err < i_cutoff[target] and |err * k_i[target]| < i_max[target], else 0.
C21_Reset ==
    [][\A s \in SensorNames(cfg) :
          /\ ResetSample(s) => WasReset(s)
          /\ ReEntered(s) =>
                LET info == SensorInfoOf(cfg, s)
                    target == PidTarget(info, sensor_status_map_'[s].severity)
                    err == At(info.hot_thresholds, target) - eval'[s].value
                    k_i == At(info.k_i, target)
                    gain == IF err < 0 THEN At(info.k_po, target) ELSE At(info.k_pu, target)
                    integrates == err < At(info.i_cutoff, target) /\ Abs(err * k_i) < At(info.i_max, target)
                    i == IF integrates THEN err * k_i ELSE 0
                    sum == At(info.s_power, target) + err * gain + i
                    lo == At(info.min_alloc_power, target)
                    hi == At(info.max_alloc_power, target)
                IN /\ sensor_status_map_[s].err_integral = 0
                   /\ IsNaN(sensor_status_map_[s].prev_err)
                   /\ sensor_status_map_'[s].err_integral = IF integrates THEN err ELSE 0
                   /\ sensor_status_map_'[s].prev_err = err
                   /\ eval'[s].budget = Fin(IF MaxOf(sum, lo) > hi THEN hi ELSE MaxOf(sum, lo), 1)]_vars

\* the sensor went from NONE to LIGHT on the reading 53: target MODERATE,
\* err = 2, integral term 2 * k_i = 4, no derivative term, budget
\* 900 + 2 * 100 + 4
C21_Witness ==
    /\ cfg.name = "pid"
    /\ eval["s1"].what = "ok"
    /\ eval["s1"].value = 53
    /\ sensor_status_map_["s1"].severity = LIGHT
    /\ sensor_status_map_["s1"].err_integral = 2
    /\ sensor_status_map_["s1"].prev_err = 2
    /\ eval["s1"].budget = Fin(1104, 1)
    /\ now > 0

----------------------------------------------------------------------------
(* The power allocator under weight lists with zero entries *)

\* cdev_weight lists for the two cooling devices of the PID sensor
AllocWeights == {<<2, 1>>, <<0, 3>>, <<0, 0>>}

\* the PID configuration with a given weight list and no power service
CfgAlloc(w) == [CfgPid EXCEPT !.name = "alloc", !.power_hal_up = FALSE, !.sensor_info = ("s1" :> [PidS1 EXCEPT !.cdev_weight = w, !.send_powerhint = FALSE])]

AllocInit ==
    /\ \E w \in AllocWeights : Constructed(CfgAlloc(w), HalOf(CfgAlloc(w)))
    /\ call = NoCall

AllocSpec == AllocInit /\ [][Next]_vars

\* the indices of a power2state table whose entry is strictly less than the
\* share weight / total_weight of a budget
StrictlyLess(power2state, b, weight, total_weight) ==
    {j \in 0 .. (Len(power2state) - 1) :
        CASE b.kind = "fin" -> power2state[j + 1] * b.den * total_weight < b.num * weight
          [] b.kind \in {"max", "inf"} -> TRUE
          [] OTHER -> FALSE}

\* the state the allocator is said to select
SelectedState(power2state, b, weight, total_weight) ==
    LET less == StrictlyLess(power2state, b, weight, total_weight)
    IN IF less = {} THEN Len(power2state) - 1 ELSE SetMin(less)

TotalWeight(info) == SumWeights(info.cdev_weight, Len(info.cdev_request))

\* the step sampled s and called requestCdevByPower with a non-zero total weight
Allocated(s) == Sampled(s) /\ HasPid(s) /\ TotalWeight(SensorInfoOf(cfg, s)) > 0

\* the requests recorded for the cooling devices with a positive weight
PositiveWeightsServed(s) ==
    LET info == SensorInfoOf(cfg, s)
    IN \A n \in 1 .. Len(info.cdev_request) :
          info.cdev_weight[n] > 0 =>
             sensor_status_map_'[s].pid_request_map[info.cdev_request[n]]
                = SelectedState(cfg.cdev_info[info.cdev_request[n]].power2state,
                                eval'[s].budget, info.cdev_weight[n], TotalWeight(info))

\* C22: for each cooling device of cdev_request with weight > 0 the allocator
\* records the smallest index j with power2state[j] < budget * weight / total
\* weight, or the last index when no entry is strictly less; a cooling device
\* whose weight is not > 0 keeps its PID request.
C22_Allocation ==
    [][\A s \in SensorNames(cfg) :
          Allocated(s) =>
             /\ PositiveWeightsServed(s)
             /\ LET info == SensorInfoOf(cfg, s)
                IN \A n \in 1 .. Len(info.cdev_request) :
                      ~(info.cdev_weight[n] > 0) =>
                         sensor_status_map_'[s].pid_request_map[info.cdev_request[n]]
                            = sensor_status_map_[s].pid_request_map[info.cdev_request[n]]]_vars

\* the part of C22 about the cooling devices with a positive weight
AllocationOfPositiveWeights ==
    [][\A s \in SensorNames(cfg) : Allocated(s) => PositiveWeightsServed(s)]_vars

\* a cooling device of weight 0 was moved to the last state of its table
ZeroWeightThrottled ==
    /\ cfg.name = "alloc"
    /\ cfg.sensor_info["s1"].cdev_weight = <<0, 3>>
    /\ eval["s1"].what = "ok"
    /\ sensor_status_map_["s1"].pid_request_map["c1"] = Len(cfg.cdev_info["c1"].power2state) - 1
    /\ sensor_status_map_["s1"].severity = NONE

\* the highest severity in LIGHT .. severity whose throttle_type is LIMIT, else 0
LimitTargetOf(info, severity) ==
    LET lim == {i \in Severities : NONE < i /\ i <= severity /\ At(info.throttle_type, i) = "LIMIT"}
    IN IF lim = {} THEN 0 ELSE SetMax(lim)

\* the hard-limit requests of s after the step follow its new severity
HardLimitsFollow(s) ==
    LET info == SensorInfoOf(cfg, s)
        target == LimitTargetOf(info, sensor_status_map_'[s].severity)
    IN /\ DOMAIN sensor_status_map_'[s].hard_limit_request_map = DOMAIN info.limit_info
       /\ \A cdev \in DOMAIN info.limit_info :
             sensor_status_map_'[s].hard_limit_request_map[cdev] = At(info.limit_info[cdev], target)

\* C23: when the sum of a sensor's cdev_weight is 0, requestCdevByPower fails
\* and leaves every entry of pid_request_map at its prior value, whatever that
\* value is, and the iteration goes on for the sensor: its hard limits are
\* computed, its requests are aggregated into cdev_status_map_ and its update
\* time is set.
C23_ZeroWeight ==
    [][\A s \in SensorNames(cfg) :
          (Sampled(s) /\ HasPid(s) /\ TotalWeight(SensorInfoOf(cfg, s)) = 0) =>
             /\ sensor_status_map_'[s].pid_request_map = sensor_status_map_[s].pid_request_map
             /\ \A prior \in [PidCdevs(SensorInfoOf(cfg, s)) -> 0 .. 2] :
                   LET r == requestCdevByPower(cfg, SensorInfoOf(cfg, s), prior, eval'[s].budget)
                   IN ~r.ok /\ r.pid_request_map = prior
             /\ HardLimitsFollow(s)
             /\ \A cdev \in DOMAIN cdev_status_map_ :
                   s \in DOMAIN cdev_status_map_[cdev] =>
                      cdev_status_map_'[cdev][s] = RequestOf(sensor_status_map_'[s], cdev)
             /\ sensor_status_map_'[s].last_update_time = now]_vars

\* a sensor of total weight 0 was sampled at MODERATE: its PID requests are as
\* before, its hard limits moved and were aggregated
C23_Witness ==
    /\ cfg.name = "alloc"
    /\ cfg.sensor_info["s1"].cdev_weight = <<0, 0>>
    /\ eval["s1"].what = "ok"
    /\ sensor_status_map_["s1"].severity = MODERATE
    /\ sensor_status_map_["s1"].pid_request_map = [cdev \in {"c1", "c2"} |-> 0]
    /\ sensor_status_map_["s1"].hard_limit_request_map["c1"] = 1
    /\ cdev_status_map_["c1"]["s1"] = 1
    /\ sensor_status_map_["s1"].last_update_time = now
    /\ now > 0

\* C24: requestCdevBySeverity takes as target the highest severity s with
\* NONE < s <= current severity and throttle_type[s] = LIMIT (0 if there is
\* none) and sets hard_limit_request_map[cdev] = states[target] for every
\* (cdev, states) of limit_info; below every LIMIT severity each request is
\* states[0].
C24_HardLimit ==
    [][\A s \in SensorNames(cfg) :
          (Sampled(s) /\ DOMAIN sensor_status_map_[s].hard_limit_request_map # {}) =>
             /\ HardLimitsFollow(s)
             /\ (\A i \in Severities : (NONE < i /\ i <= sensor_status_map_'[s].severity)
                                          => At(SensorInfoOf(cfg, s).throttle_type, i) # "LIMIT")
                   => \A cdev \in DOMAIN SensorInfoOf(cfg, s).limit_info :
                         sensor_status_map_'[s].hard_limit_request_map[cdev]
                            = At(SensorInfoOf(cfg, s).limit_info[cdev], 0)]_vars

\* the sensor, back at NONE after a hard limit of 5, requests states[0] again
C24_Witness ==
    /\ cfg.name = "shared"
    /\ eval["s2"].what = "ok"
    /\ sensor_status_map_["s2"].severity = NONE
    /\ sensor_status_map_["s2"].hard_limit_request_map["c1"] = 0
    /\ cur_state["c1"] = 5

----------------------------------------------------------------------------
(* Power hints of a sensor that moves between hinted severities *)

\* a sensor that reaches LIGHT and SEVERE, both with a supported hint
HintS1 == [BaseSensor EXCEPT
    !.send_powerhint = TRUE,
    !.supported_hints = {LIGHT, SEVERE},
    !.readings = {30, 50, 70} ]

CfgHint == [
    name |-> "hint",
    sensors |-> <<"s1">>,
    sensor_info |-> ("s1" :> HintS1),
    cdevs |-> <<"c1">>,
    cdev_info |-> ("c1" :> [power2state |-> <<1500, 1000, 500, 0>>]),
    cdev_write_may_fail |-> FALSE,
    power_hal_up |-> TRUE ]

HintInit ==
    /\ Constructed(CfgHint, HalOf(CfgHint))
    /\ call = NoCall

HintSpec == HintInit /\ [][Next]_vars

\* the step is a call of sendPowerExtHint
HintCall ==
    /\ pc = "notify"
    /\ idx <= Len(temps)
    /\ SensorInfoOf(cfg, temps[idx].name).send_powerhint
    /\ power_hal.exist

\* the RPCs the step sent, without their outcome
SentRpcs ==
    [k \in 1 .. (Len(rpc_log') - Len(rpc_log)) |->
        [sensor |-> rpc_log'[Len(rpc_log) + k].sensor,
         severity |-> rpc_log'[Len(rpc_log) + k].severity,
         enable |-> rpc_log'[Len(rpc_log) + k].enable]]

\* C25: a call of sendPowerExtHint whose eff = supported[sensor][new severity]
\* differs from prev_hint_severity disables the old hint, only if the old one
\* is not NONE, then enables the new hint, only if eff is not NONE, and records
\* prev_hint_severity = eff; a disable is never sent after the enable, and
\* while the power service answers, exactly these hints are sent.
C25_HintProtocol ==
    [][HintCall =>
          LET t == temps[idx]
              prev == sensor_status_map_[t.name].prev_hint_severity
              eff == EffectiveHint(t.name, t.throttlingStatus)
              disable == [sensor |-> t.name, severity |-> prev, enable |-> FALSE]
              enable == [sensor |-> t.name, severity |-> eff, enable |-> TRUE]
              protocol == (IF prev # NONE THEN <<disable>> ELSE <<>>)
                             \o (IF eff # NONE THEN <<enable>> ELSE <<>>)
          IN eff # prev =>
                /\ sensor_status_map_'[t.name].prev_hint_severity = eff
                /\ Len(rpc_log') >= Len(rpc_log)
                /\ SubSeq(rpc_log', 1, Len(rpc_log)) = rpc_log
                /\ \A k \in 1 .. Len(SentRpcs) :
                      /\ SentRpcs[k] = disable => (prev # NONE /\ k = 1)
                      /\ SentRpcs[k] = enable => eff # NONE
                      /\ SentRpcs[k] \in {disable, enable}
                /\ Len(SentRpcs) <= Len(protocol)
                /\ SubSeq(protocol, 1, Len(SentRpcs)) = SentRpcs
                /\ power_hal'.aidl => SentRpcs = protocol]_vars

\* the severity went from LIGHT to SEVERE: the hint LIGHT was disabled, then
\* the hint SEVERE enabled
C25_Witness ==
    /\ cfg.name = "hint"
    /\ pc = "notify"
    /\ Len(rpc_log) = 2
    /\ rpc_log[1] = [sensor |-> "s1", severity |-> LIGHT, enable |-> FALSE, ok |-> TRUE]
    /\ rpc_log[2] = [sensor |-> "s1", severity |-> SEVERE, enable |-> TRUE, ok |-> TRUE]
    /\ sensor_status_map_["s1"].prev_hint_severity = SEVERE

----------------------------------------------------------------------------
(* updateSupportedPowerHints, against a power service that answers each     *)
(* query with yes or no, or fails                                           *)

RpcAnswers == {"yes", "no", "fail"}

\* two sensors; the first sends power hints, the second may
CfgSupport(h2) == [CfgShared EXCEPT !.name = "support", !.power_hal_up = TRUE, !.sensor_info = ("s1" :> [SharedS1 EXCEPT !.send_powerhint = TRUE] @@ "s2" :> [SharedS2 EXCEPT !.send_powerhint = h2])]

\* the constructor has connected to the power service and calls
\* updateSupportedPowerHints (line 326); call.answers = what the service
\* would answer to the query for a severity
SupportInit ==
    \E h2 \in BOOLEAN, answers \in [Levels -> RpcAnswers] :
        /\ Constructed(CfgSupport(h2), HalOf(CfgSupport(h2)))
        /\ call = [fn |-> "updateSupportedPowerHints", i |-> 1, severity |-> NONE,
                   current_severity |-> NONE, answers |-> answers,
                   supported_powerhint_map_ |-> NoMap]

\* faulty variant: an unsupported severity maps to NONE
SupportedPassForget(hal, log, name, severity, current_severity, answer) ==
    LET r == IF hal.ext THEN isModeSupported(hal, log, name, severity, answer # "fail")
             ELSE [hal |-> hal, log |-> log]
    IN [hal |-> r.hal, log |-> r.log,
        current_severity |-> IF hal.ext /\ hal.aidl /\ answer = "yes" THEN severity ELSE NONE]

\* lines 1072-1079: isSupported and current_severity after the query for severity
SupportedPass(hal, log, name, severity, current_severity, answer) ==
    LET r == IF hal.ext THEN isModeSupported(hal, log, name, severity, answer # "fail")
             ELSE [hal |-> hal, log |-> log]
    IN [hal |-> r.hal, log |-> r.log,
        current_severity |-> IF hal.ext /\ hal.aidl /\ answer = "yes"
                             THEN severity ELSE current_severity]

\* the outer loop reaches a sensor: "continue" without send_powerhint, else
\* the pass for NONE
SupportSensor ==
    /\ call.fn = "updateSupportedPowerHints"
    /\ call.i <= Len(cfg.sensors)
    /\ call.severity = NONE
    /\ LET name == cfg.sensors[call.i]
       IN IF ~cfg.sensor_info[name].send_powerhint
          THEN call' = [call EXCEPT !.i = @ + 1]
          ELSE call' = [call EXCEPT !.severity = LIGHT, !.current_severity = NONE,
                                    !.supported_powerhint_map_ = (name :> (NONE :> NONE)) @@ @]
    /\ UNCHANGED loop

\* one pass of the inner loop for a severity above NONE
SupportQuery ==
    /\ call.fn = "updateSupportedPowerHints"
    /\ call.i <= Len(cfg.sensors)
    /\ call.severity > NONE
    /\ LET name == cfg.sensors[call.i]
           Step(r) ==
              /\ power_hal' = r.hal
              /\ rpc_log' = r.log
              /\ call' = [call EXCEPT
                            !.current_severity = r.current_severity,
                            !.supported_powerhint_map_[name] = (call.severity :> r.current_severity) @@ @,
                            !.severity = IF call.severity = SHUTDOWN THEN NONE ELSE @ + 1,
                            !.i = IF call.severity = SHUTDOWN THEN @ + 1 ELSE @]
       IN Step(SupportedPass(power_hal, rpc_log, name, call.severity, call.current_severity, call.answers[call.severity]))
    /\ UNCHANGED <<cfg, now, uevent_sensors, pc, idx, sensor_status_map_, cdev_status_map_, temps, cooling_devices_to_update, min_sleep_ms, ret_sleep, cur_state, writes, cb_log, eval>>

SupportNext == SupportSensor \/ SupportQuery

SupportSpec == SupportInit /\ [][SupportNext]_vars

SupportReturned == call.fn = "updateSupportedPowerHints" /\ call.i > Len(cfg.sensors)

\* the severities the power service reported as supported for a sensor: the
\* query was sent, succeeded and was answered with yes
ReportedSupported(name) ==
    {sev \in Levels :
        /\ call.answers[sev] = "yes"
        /\ \E k \in 1 .. Len(rpc_log) : rpc_log[k].sensor = name /\ rpc_log[k].severity = sev /\ rpc_log[k].ok}

\* C26: after updateSupportedPowerHints, for every sensor with send_powerhint
\* and every severity s, supported_powerhint_map_[sensor][s] is the highest
\* severity s' <= s, s' # NONE, that the power service reported as supported,
\* or NONE when there is none; the map is non-decreasing in s and its entry
\* for NONE is NONE.
C26_SupportedMap ==
    SupportReturned =>
        \A name \in SensorNames(cfg) :
            IF cfg.sensor_info[name].send_powerhint
            THEN /\ name \in DOMAIN call.supported_powerhint_map_
                 /\ DOMAIN call.supported_powerhint_map_[name] = Severities
                 /\ \A sev \in Severities :
                       call.supported_powerhint_map_[name][sev]
                          = HighestOf({x \in ReportedSupported(name) : x <= sev})
                 /\ \A a, b \in Severities :
                       a <= b => call.supported_powerhint_map_[name][a] <= call.supported_powerhint_map_[name][b]
                 /\ call.supported_powerhint_map_[name][NONE] = NONE
            ELSE name \notin DOMAIN call.supported_powerhint_map_

\* LIGHT and SEVERE are supported, MODERATE is not and maps to LIGHT; the
\* query for CRITICAL failed, so the second sensor has no supported hint
C26_Witness ==
    /\ SupportReturned
    /\ cfg.sensor_info["s2"].send_powerhint
    /\ call.answers = (LIGHT :> "yes" @@ MODERATE :> "no" @@ SEVERE :> "yes" @@ CRITICAL :> "fail" @@ EMERGENCY :> "yes" @@ SHUTDOWN :> "yes")
    /\ call.supported_powerhint_map_["s1"] = (NONE :> NONE @@ LIGHT :> LIGHT @@ MODERATE :> LIGHT @@ SEVERE :> SEVERE @@ CRITICAL :> SEVERE @@ EMERGENCY :> SEVERE @@ SHUTDOWN :> SEVERE)
    /\ \A sev \in Severities : call.supported_powerhint_map_["s2"][sev] = NONE

----------------------------------------------------------------------------
(* readTemperature of a virtual sensor, over the linked_sensors lists,      *)
(* coefficients and readings of three linked sensors                        *)

LinkedNames == <<"s1", "s2", "s3">>
LinkedLists == {l \in [1 .. 3 -> {"s1", "s2", "s3", "NAN", ""}] : \A n \in 1 .. 3 : l[n] \in {LinkedNames[n], "NAN", ""}}
CoefficientLists == [1 .. 3 -> {1, 0 - 1, NaN}]
LinkedFileReadings == [1 .. 3 -> {40, 90, ReadFail}]

\* the watcher calls readTemperature(name, &temp, &throtting_status, true)
\* for a virtual sensor; call.rd[n] = what the file of linked sensor n yields
VirtualInit ==
    /\ Constructed(CfgVirtual, HalOf(CfgVirtual))
    /\ \E formula \in {"MAXIMUM", "MINIMUM"}, l \in LinkedLists, cf \in CoefficientLists, rd \in LinkedFileReadings :
          call = [fn |-> "readTemperature", at |-> "called",
                  info |-> [VirtualV1 EXCEPT !.formula = formula, !.linked_sensors = l, !.coefficients = cf],
                  rd |-> rd, ok |-> FALSE, value |-> 0, throttlingStatus |-> NONE]

\* lines 396-433 for a virtual sensor: checkVirtualSensor returns true for a
\* sensor of sensor_info_map_, and its value is classified
VirtualRead ==
    /\ call.fn = "readTemperature"
    /\ call.at = "called"
    /\ LET Return(value, status) ==
              call' = [call EXCEPT !.at = "returned", !.ok = TRUE, !.value = value,
                                   !.throttlingStatus = MaxOf(status[1], status[2])]
           Classify(value) ==
              Return(value, getSeverityFromThresholds(call.info.hot_thresholds, call.info.cold_thresholds, call.info.hot_hysteresis, call.info.cold_hysteresis, NONE, NONE, value))
       IN Classify(checkVirtualSensor(call.info, call.rd) * call.info.multiplier)
    /\ UNCHANGED loop

VirtualSpec == VirtualInit /\ [][VirtualRead]_vars

VirtualReturned == call.fn = "readTemperature" /\ call.at = "returned"

\* the entries whose file is read, and those that enter the formula
ReadEntries == {n \in 1 .. 3 : call.info.linked_sensors[n] \notin {"NAN", ""}}
KeptEntries == {n \in ReadEntries : ~IsNaN(call.info.coefficients[n])}
Products == {call.rd[n] * call.info.coefficients[n] : n \in KeptEntries}

\* C27: for every choice of linked_sensors, with entries skipped at any index
\* because they are "NAN", empty or have a NaN coefficient, the value of a
\* MAXIMUM (MINIMUM) sensor is the maximum (minimum) of reading * coefficient
\* over exactly the entries that are not skipped.  Stated for calls in which
\* every read succeeds and at least one entry is kept.
C27_VirtualMaxMin ==
    (/\ VirtualReturned
     /\ \A n \in ReadEntries : call.rd[n] # ReadFail
     /\ KeptEntries # {}) =>
        call.value = IF call.info.formula = "MAXIMUM" THEN SetMax(Products) ELSE SetMin(Products)

\* the part of C27 for lists whose first entry is kept
VirtualMaxMinFromFirst ==
    (/\ VirtualReturned
     /\ \A n \in ReadEntries : call.rd[n] # ReadFail
     /\ 1 \in KeptEntries) =>
        call.value = IF call.info.formula = "MAXIMUM" THEN SetMax(Products) ELSE SetMin(Products)

\* C29: when the read of a linked sensor of a virtual sensor fails, the read
\* of the virtual sensor returns an error, and no value computed from the
\* remaining linked sensors is classified.
C29_VirtualReadFail ==
    (VirtualReturned /\ \E n \in ReadEntries : call.rd[n] = ReadFail) =>
        /\ ~call.ok
        /\ call.throttlingStatus = NONE

----------------------------------------------------------------------------
(* initializeTrip, over what the policy file of a zone holds and whether    *)
(* the writes of its trip point files succeed                               *)

\* static_cast<int>(a / b) for b > 0: truncation towards zero
TruncDiv(a, b) == IF a >= 0 THEN a \div b ELSE 0 - ((0 - a) \div b)

\* two monitored physical sensors, an unmonitored one and a virtual one
TripS1(hot_thresholds, hot_hysteresis) == [BaseSensor EXCEPT !.hot_thresholds = hot_thresholds, !.hot_hysteresis = hot_hysteresis]
TripS2 == [BaseSensor EXCEPT !.multiplier = 2, !.polling_delay = 3000, !.passive_delay = 500]
CfgTrip(hot_thresholds, hot_hysteresis) == [CfgVirtual EXCEPT !.name = "trip", !.sensors = <<"s1", "s2", "s3", "v1">>, !.sensor_info = ("s1" :> TripS1(hot_thresholds, hot_hysteresis) @@ "s2" :> TripS2 @@ "s3" :> VirtualS2 @@ "v1" :> VirtualV1)]

TripThresholds == {<<NaN, 45, 55, 65, NaN, NaN, 95>>, AllNaN, <<NaN, NaN, NaN, NaN, NaN, NaN, 95>>}
TripHysteresis == {<<0, 2, 3, 3, 0, 0, 0>>, <<NaN, NaN, 3, 3, 0, 0, 0>>}

\* what a zone does to initializeTrip: the content of its policy file
\* ("unreadable": ReadFileToString fails) and the outcome of the two writes
ZoneOutcomes == [policy : {"user_space", "step_wise", "unreadable"}, temp_ok : BOOLEAN, hyst_ok : BOOLEAN]

\* the constructor calls initializeTrip (line 313)
TripInit ==
    \E ht \in TripThresholds, hh \in TripHysteresis, z1, z2 \in ZoneOutcomes :
        /\ Constructed(CfgTrip(ht, hh), HalOf(CfgTrip(ht, hh)))
        /\ call = [fn |-> "initializeTrip", i |-> 1,
                   zone |-> ("s1" :> z1 @@ "s2" :> z2),
                   sensor_info_map_ |-> CfgTrip(ht, hh).sensor_info,
                   monitored_sensors |-> {}, trip_writes |-> <<>>]

\* the first i at which the loop of lines 716-747 finds a non-NaN pair, or
\* kThrottlingSeverityCount when it ends at "all thresholds are NAN"
RECURSIVE TripIndex(_, _)
TripIndex(info, i) ==
    IF i >= kThrottlingSeverityCount THEN kThrottlingSeverityCount
    ELSE IF ~IsNaN(At(info.hot_thresholds, i)) /\ ~IsNaN(At(info.hot_hysteresis, i)) THEN i
    ELSE TripIndex(info, i + 1)

\* faulty variant: a failed write of trip_point_0_hyst is not noticed
TripOfSensorIgnoreHyst(name, info, zone) ==
    LET i == TripIndex(info, 0)
        temp == [sensor |-> name, file |-> "trip_point_0_temp", value |-> TruncDiv(At(info.hot_thresholds, i), info.multiplier), ok |-> zone.temp_ok]
        hyst == [sensor |-> name, file |-> "trip_point_0_hyst", value |-> TruncDiv(At(info.hot_hysteresis, i), info.multiplier), ok |-> zone.hyst_ok]
    IN IF zone.policy # "user_space" \/ i >= kThrottlingSeverityCount
       THEN [support_uevent |-> FALSE, writes |-> <<>>]
       ELSE IF ~zone.temp_ok THEN [support_uevent |-> FALSE, writes |-> <<temp>>]
       ELSE [support_uevent |-> TRUE, writes |-> <<temp, hyst>>]

\* lines 697-748 for one sensor: support_uevent and the writes attempted
TripOfSensor(name, info, zone) ==
    LET i == TripIndex(info, 0)
        temp == [sensor |-> name, file |-> "trip_point_0_temp", value |-> TruncDiv(At(info.hot_thresholds, i), info.multiplier), ok |-> zone.temp_ok]
        hyst == [sensor |-> name, file |-> "trip_point_0_hyst", value |-> TruncDiv(At(info.hot_hysteresis, i), info.multiplier), ok |-> zone.hyst_ok]
    IN IF zone.policy # "user_space" \/ i >= kThrottlingSeverityCount
       THEN [support_uevent |-> FALSE, writes |-> <<>>]
       ELSE IF ~zone.temp_ok THEN [support_uevent |-> FALSE, writes |-> <<temp>>]
       ELSE [support_uevent |-> zone.hyst_ok, writes |-> <<temp, hyst>>]

\* one pass of the loop over sensor_info_map_
TripSensor ==
    /\ call.fn = "initializeTrip"
    /\ call.i <= Len(cfg.sensors)
    /\ LET name == cfg.sensors[call.i]
           info == call.sensor_info_map_[name]
           Step(r) ==
              call' = [call EXCEPT
                         !.i = @ + 1,
                         !.trip_writes = @ \o r.writes,
                         !.monitored_sensors = IF r.support_uevent THEN @ \cup {name} ELSE @,
                         !.sensor_info_map_[name] = IF r.support_uevent THEN @ ELSE setMinTimeout(@)]
       IN IF ~info.is_monitor \/ info.is_virtual_sensor
          THEN call' = [call EXCEPT !.i = @ + 1]
          ELSE Step(TripOfSensor(name, info, call.zone[name]))
    /\ UNCHANGED loop

TripSpec == TripInit /\ [][TripSensor]_vars

TripReturned == call.fn = "initializeTrip" /\ call.i > Len(cfg.sensors)

\* the severities of a sensor with a non-NaN (hot_threshold, hot_hysteresis) pair
TripPairs(info) == {i \in Severities : ~IsNaN(At(info.hot_thresholds, i)) /\ ~IsNaN(At(info.hot_hysteresis, i))}

\* both trip point files of the sensor were written successfully from severity i
TripProgrammed(name, info, i) ==
    \E k \in 1 .. (Len(call.trip_writes) - 1) :
        /\ call.trip_writes[k] = [sensor |-> name, file |-> "trip_point_0_temp", value |-> TruncDiv(At(info.hot_thresholds, i), info.multiplier), ok |-> TRUE]
        /\ call.trip_writes[k + 1] = [sensor |-> name, file |-> "trip_point_0_hyst", value |-> TruncDiv(At(info.hot_hysteresis, i), info.multiplier), ok |-> TRUE]

\* C28: after initializeTrip every monitored non-virtual sensor either is in
\* the set of uevent-monitored sensors, and then its policy file read
\* user_space and trip_point_0_temp and trip_point_0_hyst were both written
\* successfully from the lowest severity with a non-NaN (hot_threshold,
\* hot_hysteresis) pair, or is not in the set and has polling_delay =
\* passive_delay = kMinPollIntervalMs; a sensor that meets the conditions is in
\* the set.
C28_TripFallback ==
    TripReturned =>
        \A name \in SensorNames(cfg) :
            LET info == cfg.sensor_info[name]
                after == call.sensor_info_map_[name]
            IN IF info.is_monitor /\ ~info.is_virtual_sensor
               THEN LET eligible == /\ call.zone[name].policy = "user_space"
                                    /\ TripPairs(info) # {}
                                    /\ TripProgrammed(name, info, SetMin(TripPairs(info)))
                    IN /\ name \in call.monitored_sensors <=> eligible
                       /\ name \in call.monitored_sensors => after = info
                       /\ name \notin call.monitored_sensors =>
                             /\ after.polling_delay = kMinPollIntervalMs
                             /\ after.passive_delay = kMinPollIntervalMs
               ELSE name \notin call.monitored_sensors /\ after = info

\* s1 was programmed from MODERATE, its lowest complete pair, and is watched;
\* the write of the hysteresis of s2 failed and s2 polls at the minimum interval
C28_Witness ==
    /\ TripReturned
    /\ call.monitored_sensors = {"s1"}
    /\ TripPairs(cfg.sensor_info["s1"]) = {MODERATE, SEVERE, SHUTDOWN}
    /\ call.trip_writes = << [sensor |-> "s1", file |-> "trip_point_0_temp", value |-> 55, ok |-> TRUE],
                             [sensor |-> "s1", file |-> "trip_point_0_hyst", value |-> 3, ok |-> TRUE],
                             [sensor |-> "s2", file |-> "trip_point_0_temp", value |-> 22, ok |-> TRUE],
                             [sensor |-> "s2", file |-> "trip_point_0_hyst", value |-> 1, ok |-> FALSE] >>
    /\ call.sensor_info_map_["s2"].polling_delay = kMinPollIntervalMs
    /\ call.sensor_info_map_["s2"].passive_delay = kMinPollIntervalMs
    /\ call.sensor_info_map_["s1"].polling_delay = 4000

----------------------------------------------------------------------------
(* last_update_time *)

\* C30: last_update_time of a sensor is set to the iteration's now exactly
\* when the sensor is evaluated successfully in the iteration, and is left as
\* it is when the sensor is not monitored, not due, or its read fails; a
\* monitored sensor whose name (trigger_sensor if virtual) is among the uevent
\* sensors is evaluated at once, and without a uevent it is evaluated exactly
\* when one due interval, chosen by the severity of its last update, has
\* passed since last_update_time.
C30_UpdateTime ==
    [][/\ \A s \in SensorNames(cfg) :
             sensor_status_map_'[s].last_update_time # sensor_status_map_[s].last_update_time =>
                /\ pc = "sensors"
                /\ cfg.sensors[idx] = s
                /\ eval'[s].what = "ok"
       /\ (pc = "sensors" /\ idx <= Len(cfg.sensors)) =>
             LET name == cfg.sensors[idx]
                 info == SensorInfoOf(cfg, name)
                 st == sensor_status_map_[name]
                 due_interval == IF st.severity > NONE THEN info.passive_delay ELSE info.polling_delay
                 trigger == IF info.is_virtual_sensor THEN info.trigger_sensor ELSE name
                 evaluated == eval'[name].what \in {"ok", "readfail"}
             IN /\ eval'[name].what = "ok" => sensor_status_map_'[name].last_update_time = now
                /\ eval'[name].what \in {"unmonitored", "notdue", "readfail"} =>
                      sensor_status_map_'[name].last_update_time = st.last_update_time
                /\ (info.is_monitor /\ trigger \in uevent_sensors) => evaluated
                /\ (info.is_monitor /\ trigger \notin uevent_sensors) =>
                      (evaluated <=> now >= st.last_update_time + due_interval)
                /\ ~info.is_monitor => eval'[name].what = "unmonitored"]_vars

\* a sensor with a due interval of 3000 ms was evaluated 1000 ms after its
\* last update, on a uevent, and its update time is the time of the uevent
C30_Witness ==
    /\ cfg.name = "shared"
    /\ eval["s2"].what = "ok"
    /\ eval["s2"].elapsed = 1000
    /\ "s2" \in uevent_sensors
    /\ now > 1000
    /\ sensor_status_map_["s2"].last_update_time = now

----------------------------------------------------------------------------
(* The aggregation when the sensors' request maps name different devices *)

\* Two sensors drive different cooling devices by hard limits.
CfgSplit == [
    name |-> "split",
    sensors |-> <<"s1", "s2">>,
    sensor_info |-> ("s1" :> [SharedS1 EXCEPT !.limit_info = ("c1" :> <<0, 3, 3, 3, 3, 3, 3>>)]
                     @@ "s2" :> [SharedS2 EXCEPT !.limit_info = ("c2" :> <<0, 1, 2, 2, 2, 2, 2>>)]),
    cdevs |-> <<"c1", "c2">>,
    cdev_info |-> ("c1" :> [power2state |-> <<1500, 1200, 1000, 800, 500, 0>>]
                   @@ "c2" :> [power2state |-> <<500, 380, 300, 0>>]),
    cdev_write_may_fail |-> FALSE,
    power_hal_up |-> FALSE ]

\* One sensor drives c1 by PID and c2 by a hard limit.
CfgMixed == [CfgPid EXCEPT !.name = "mixed", !.power_hal_up = FALSE, !.sensor_info = ("s1" :> [PidS1 EXCEPT !.send_powerhint = FALSE, !.cdev_request = <<"c1">>, !.cdev_weight = <<1>>, !.limit_info = ("c2" :> <<0, 0, 2, 2, 2, 2, 2>>)])]

\* every cdev_request and limit_info name of a configuration is a cooling
\* device of the configuration (the constructor's LOG(FATAL) checks pass)
CdevNamesKnown(c) ==
    \A s \in SensorNames(c) :
        /\ PidCdevs(c.sensor_info[s]) \subseteq CdevNames(c)
        /\ DOMAIN c.sensor_info[s].limit_info \subseteq CdevNames(c)

AggregationInit ==
    /\ \E c \in {CfgShared, CfgSplit, CfgMixed} : CdevNamesKnown(c) /\ Constructed(c, HalOf(c))
    /\ call = NoCall

AggregationSpec == AggregationInit /\ [][Next]_vars

\* C31: under a configuration whose cdev_request and limit_info names are all
\* known cooling devices, the aggregation of thermalWatcherCallbackFunc never
\* looks up a cooling device missing from the sensor's pid_request_map or
\* hard_limit_request_map, nor a sensor missing from a device's request
\* status: no pass of the loop over the sensors ends in std::out_of_range
C31_LookupsTotal == pc # "crashed"

\* the aggregation is total where every requesting sensor names every
\* requested cooling device in each of its non-empty request maps
C31_SharedLookupsTotal == cfg.name = "shared" => pc # "crashed"

----------------------------------------------------------------------------
(* The hysteresis memory and the previous severity *)

\* the non-NaN thresholds of an array ascend with the severity (hot) or
\* descend with it (cold)
Ascending(thresholds) ==
    \A i, j \in Levels :
        (i < j /\ ~IsNaN(At(thresholds, i)) /\ ~IsNaN(At(thresholds, j))) =>
            At(thresholds, i) < At(thresholds, j)
Descending(thresholds) ==
    \A i, j \in Levels :
        (i < j /\ ~IsNaN(At(thresholds, i)) /\ ~IsNaN(At(thresholds, j))) =>
            At(thresholds, i) > At(thresholds, j)

\* C32: for ascending hot thresholds and non-negative hysteresis the hot
\* severity getSeverityFromThresholds returns is never above the larger of the
\* raw hot severity and the previous hot severity; likewise the cold severity
\* for descending cold thresholds
C32_NoEscalation ==
    (call.fn = "getSeverityFromThresholds" /\ call.at = "returned") =>
        /\ (Ascending(call.hot_thresholds) /\ \A i \in Levels : At(call.hot_hysteresis, i) >= 0) =>
              call.status[1] <= MaxOf(RawHot, call.prev_hot_severity)
        /\ (Descending(call.cold_thresholds) /\ \A i \in Levels : At(call.cold_hysteresis, i) >= 0) =>
              call.status[2] <= MaxOf(RawCold, call.prev_cold_severity)

\* the same for a previous hot severity the thresholds can produce
C32_NoEscalationFromReached ==
    (/\ call.fn = "getSeverityFromThresholds" /\ call.at = "returned"
     /\ Ascending(call.hot_thresholds)
     /\ call.prev_hot_severity \in Levels
     /\ ~IsNaN(At(call.hot_thresholds, call.prev_hot_severity))) =>
        call.status[1] <= MaxOf(RawHot, call.prev_hot_severity)

\* the hot severity does not escalate where no hysteresis band of a level
\* above the previous severity holds the value
C32_NoEscalationNarrowBands ==
    (/\ call.fn = "getSeverityFromThresholds" /\ call.at = "returned"
     /\ \A i \in Levels : (i > call.prev_hot_severity /\ ~IsNaN(At(call.hot_thresholds, i))) =>
                             At(call.hot_thresholds, i) - At(call.hot_hysteresis, i) >= call.value) =>
        call.status[1] <= MaxOf(RawHot, call.prev_hot_severity)

----------------------------------------------------------------------------
(* The PID requests of a sensor evaluated at severity NONE *)

\* the step sampled s at NONE and called requestCdevByPower with the budget
\* of "no throttling" and a non-zero total weight
AllocatedAtNone(s) == Allocated(s) /\ sensor_status_map_'[s].severity = NONE

\* C33: after a PID sensor with a non-zero total weight is evaluated at
\* severity NONE, its PID request for every cooling device of its cdev_request
\* is state 0, whatever the weights, weight 0 included
C33_NoThrottlingAtNone ==
    [][\A s \in SensorNames(cfg) :
          AllocatedAtNone(s) =>
             \A cdev \in PidCdevs(SensorInfoOf(cfg, s)) :
                sensor_status_map_'[s].pid_request_map[cdev] = 0]_vars

\* the part of C33 about the cooling devices with a positive weight
NoThrottlingAtNonePositiveWeights ==
    [][\A s \in SensorNames(cfg) :
          AllocatedAtNone(s) =>
             LET info == SensorInfoOf(cfg, s)
             IN \A n \in 1 .. Len(info.cdev_request) :
                   info.cdev_weight[n] > 0 =>
                      sensor_status_map_'[s].pid_request_map[info.cdev_request[n]] = 0]_vars

----------------------------------------------------------------------------
(* The bound of the sleep the callback returns *)

MonitoredSensors(c) == {s \in SensorNames(c) : SensorInfoOf(c, s).is_monitor}

\* the largest polling_delay or passive_delay of a monitored sensor
LargestDelay(c) ==
    SetMax(UNION {{SensorInfoOf(c, s).polling_delay, SensorInfoOf(c, s).passive_delay} :
                     s \in MonitoredSensors(c)})

\* the callback returns in this step
Returns == pc = "notify" /\ pc' = "idle"

\* C34: with at least one monitored sensor the sleep the callback returns is
\* at most the larger of kMinPollIntervalMs and the largest polling_delay or
\* passive_delay of a monitored sensor, also in an iteration in which reads of
\* due sensors fail; the initial value of min_sleep_ms is never returned
C34_BoundedSleep ==
    [][(Returns /\ MonitoredSensors(cfg) # {}) =>
          /\ ret_sleep' <= MaxOf(kMinPollIntervalMs, LargestDelay(cfg))
          /\ ret_sleep' # IntMax]_vars

\* the bound holds for the iterations in which some monitored sensor was
\* sampled or was not due
BoundedSleepWithVote ==
    [][(Returns /\ \E s \in MonitoredSensors(cfg) : eval[s].what \in {"ok", "notdue"}) =>
          ret_sleep' <= MaxOf(kMinPollIntervalMs, LargestDelay(cfg))]_vars

----------------------------------------------------------------------------
(* The hints enabled at the power service over a sequence of calls of       *)
(* sendPowerExtHint, each with RPCs that may fail                           *)

\* power_hal_ext_aidl_->setMode at the power service: the hints of a sensor
\* enabled after the first n RPCs of a log; an RPC that returned an error has
\* taken effect at the service or not (applied)
RECURSIVE ServiceAfter(_, _, _, _)
ServiceAfter(enabled, log, applied, n) ==
    IF n = 0 THEN enabled
    ELSE LET before == ServiceAfter(enabled, log, applied, n - 1)
             rpc == log[n]
         IN IF ~rpc.ok /\ ~applied THEN before
            ELSE IF rpc.enable THEN before \cup {rpc.severity}
            ELSE before \ {rpc.severity}

\* a sensor with four supported hints; the service is connected and no hint
\* was sent yet
ServiceInit ==
    /\ Constructed([CfgHint EXCEPT !.name = "service", !.sensor_info["s1"].supported_hints = {LIGHT, MODERATE, SEVERE, CRITICAL}], HalOf(CfgHint))
    /\ call = [fn |-> "sendPowerExtHint", at |-> "constructed", hal |-> HalOf(CfgHint),
               prev_hint_severity |-> NONE, throttlingStatus |-> NONE,
               log |-> <<>>, enabled |-> {}]

\* the watcher notifies a new severity of the sensor: lines 1044-1046 and
\* sendPowerExtHint
ServiceHint ==
    /\ call.fn = "sendPowerExtHint"
    /\ call.hal.exist
    /\ \E throttlingStatus \in Severities \ {call.throttlingStatus}, ok1, ok2, applied \in BOOLEAN :
          LET Return(r) ==
                  call' = [call EXCEPT !.at = "returned", !.hal = r.hal,
                                       !.prev_hint_severity = r.prev_hint_severity,
                                       !.throttlingStatus = throttlingStatus,
                                       !.log = r.log,
                                       !.enabled = ServiceAfter(@, r.log, applied, Len(r.log))]
          IN Return(sendPowerExtHint(cfg, call.hal, <<>>, "s1", throttlingStatus,
                                     call.prev_hint_severity, ok1, ok2))
    /\ UNCHANGED loop

ServiceSpec == ServiceInit /\ [][ServiceHint]_vars

\* the hint the sensor records as enabled
RecordedHints == {call.prev_hint_severity} \ {NONE}

\* C35: after any sequence of severity changes, with setMode RPCs that may
\* fail, at most one hint of the sensor is enabled at the power service, and
\* prev_hint_severity is the severity of that hint, NONE when none is enabled
C35_HintConsistency ==
    call.fn = "sendPowerExtHint" =>
        /\ Cardinality(call.enabled) <= 1
        /\ call.enabled = RecordedHints

\* the same while every setMode RPC has succeeded
HintConsistencyWhileConnected ==
    (call.fn = "sendPowerExtHint" /\ call.hal.exist) =>
        /\ Cardinality(call.enabled) <= 1
        /\ call.enabled = RecordedHints

\* at most one hint of the sensor is enabled, failures included
AtMostOneHint == call.fn = "sendPowerExtHint" => Cardinality(call.enabled) <= 1

----------------------------------------------------------------------------
(* BatteryHealthReporter::checkAndReportStatus over calls at non-decreasing *)
(* boot times, each with a battery health file that can be read or not      *)

SECONDS_PER_MONTH == 60 * 60 * 24 * 30

\* values of getTimeSecs, in seconds since boot
BootTimes == {0, 1, 100, 2591999, 2592000, 2592001, 2592100, 5184000, 5184001, 7776000}

\* no upload has happened
NoUpload == 0 - 1

\* checkAndReportStatus: report_time_ after the call and whether the call
\* reached the upload of the file's lines
checkAndReportStatus(report_time_, t, readable) ==
    IF report_time_ # 0 /\ t - report_time_ < SECONDS_PER_MONTH
    THEN [report_time_ |-> report_time_, uploaded |-> FALSE, read |-> FALSE]
    ELSE IF ~readable
    THEN [report_time_ |-> report_time_, uploaded |-> FALSE, read |-> TRUE]
    ELSE [report_time_ |-> t, uploaded |-> TRUE, read |-> TRUE]

\* the reporter after construction: report_time_ is 0, the value line 98
\* takes for "never reported"
BatteryInit ==
    /\ Constructed(CfgClamp, HalOf(CfgClamp))
    /\ call = [fn |-> "checkAndReportStatus", at |-> "constructed", now |-> 0,
               report_time_ |-> 0, readable |-> FALSE, read |-> FALSE, uploaded |-> FALSE,
               previous_report_time |-> 0, previous_upload |-> NoUpload,
               latest_upload |-> NoUpload]

\* a call of checkAndReportStatus at boot time t
BatteryCheck ==
    /\ call.fn = "checkAndReportStatus"
    /\ \E t \in BootTimes, readable \in BOOLEAN :
          /\ t >= call.now
          /\ LET Return(r) ==
                     call' = [call EXCEPT !.at = "returned", !.now = t,
                                          !.report_time_ = r.report_time_,
                                          !.readable = readable,
                                          !.read = r.read,
                                          !.uploaded = r.uploaded,
                                          !.previous_report_time = call.report_time_,
                                          !.previous_upload = call.latest_upload,
                                          !.latest_upload = IF r.uploaded THEN t ELSE @]
             IN Return(checkAndReportStatus(call.report_time_, t, readable))
    /\ UNCHANGED loop

BatterySpec == BatteryInit /\ [][BatteryCheck]_vars

BatteryReturned == call.fn = "checkAndReportStatus" /\ call.at = "returned"

\* C36: over calls of checkAndReportStatus at non-decreasing boot times, a
\* call that uploads the battery health file is at least SECONDS_PER_MONTH of
\* boot time after the previous call that uploaded it; and a call in which
\* the file cannot be read leaves report_time_ unchanged
C36_RateLimit ==
    BatteryReturned =>
        /\ (call.uploaded /\ call.previous_upload # NoUpload) =>
              call.now - call.previous_upload >= SECONDS_PER_MONTH
        /\ (call.read /\ ~call.readable) =>
              /\ call.report_time_ = call.previous_report_time
              /\ ~call.uploaded

\* the rate limit between uploads of which the earlier is not at boot time 0
RateLimitAfterBootSecond ==
    (BatteryReturned /\ call.uploaded /\ call.previous_upload > 0) =>
        call.now - call.previous_upload >= SECONDS_PER_MONTH

\* a call in which the file cannot be read changes nothing, and the next call
\* at any later time reads the file again
UnreadableFileRetried ==
    [][(BatteryReturned /\ call.read /\ ~call.readable) =>
          /\ call.report_time_ = call.previous_report_time
          /\ call'.read]_vars

====
